---- MODULE Spec2Model ----
(***************************************************************************)
(* dbNetwork (dbSta): the adapter that presents the OpenDB design database *)
(* (flat instances/terminals/nets and the optional module hierarchy) as    *)
(* the STA network.  The model covers the identifier scheme, pin/net/term  *)
(* resolution, parent/child navigation, the cross-hierarchy connectivity   *)
(* traversal visitConnectedPins, the edit operations with the incremental  *)
(* net -> driver-pins index, handle classification, the library loads     *)
(* with their observers, child lookup and pin enumeration.                 *)
(***************************************************************************)
EXTENDS Integers, Sequences, FiniteSets, TLC

\* ------------------------------------------------------------------------
\* Handles.  A null pointer is NULL (nets, instances) or NullPin (pins).
\* ABSENT marks a database object that does not exist in the design.
NULL == "null"
ABSENT == "absent"
TopInstance == "TOP_INSTANCE"
TopModule == "TOP"

Pin(k, o, n) == [k |-> k, o |-> o, n |-> n]
NullPin == Pin("Null", "", "")

\* ------------------------------------------------------------------------
\* The design universe (database objects that may exist).
\* Flat nets, module nets and the module each module net lives in.
DbNets == {"n1", "n2"}
ModNets == {"t1", "a1", "b1"}
ModNetModule == [m \in ModNets |-> CASE m = "t1" -> TopModule
                                     [] m = "a1" -> "A"
                                     [] m = "b1" -> "B"]

\* Module instances: "a" (master A) sits in the top module, "b" (master B)
\* sits inside module A; the hierarchy is uniquified, one master per instance.
ModInsts == {"a", "b"}
ModInstSeq == <<"a", "b">>
ModInstMaster == [i \in ModInsts |-> IF i = "a" THEN "A" ELSE "B"]
ModInstParent == [i \in ModInsts |-> IF i = "a" THEN TopModule ELSE "A"]
Modules == {TopModule, "A", "B"}
ModuleModInst == [m \in Modules |-> CASE m = "A" -> "a"
                                      [] m = "B" -> "b"
                                      [] OTHER -> NULL]

\* Flat (leaf) instances and the module that contains each.
Insts == {"u1", "u2", "g1", "g2"}
InstSeq == <<"u1", "u2", "g1", "g2">>
InstModule == [i \in Insts |-> CASE i = "g1" -> "B"
                                 [] i = "g2" -> "A"
                                 [] OTHER -> TopModule]

\* Terminals, in database (id) order.
ITermSeq == <<Pin("ITerm", "u1", "Z"), Pin("ITerm", "u2", "A"),
              Pin("ITerm", "g1", "A"), Pin("ITerm", "g2", "Z")>>
BTermSeq == <<Pin("BTerm", TopModule, "po")>>
ModITermSeq == <<Pin("ModITerm", "a", "p"), Pin("ModITerm", "a", "q"),
                 Pin("ModITerm", "b", "p")>>
ModBTermSeq == <<Pin("ModBTerm", "A", "p"), Pin("ModBTerm", "A", "q"),
                 Pin("ModBTerm", "B", "p")>>

Range(s) == {s[i] : i \in 1..Len(s)}
ITerms == Range(ITermSeq)
BTerms == Range(BTermSeq)
ModITerms == Range(ModITermSeq)
ModBTerms == Range(ModBTermSeq)
Pins == ITerms \cup BTerms \cup ModITerms \cup ModBTerms

VARIABLES
  hierarchy_,     \* dbNetwork::hierarchy_
  nets,           \* flat nets present in the block
  iTermNet,       \* dbITerm::getNet
  iTermModNet,    \* dbITerm::getModNet
  bTermNet,       \* dbBTerm::getNet (ABSENT: no such boundary terminal)
  bTermModNet,    \* dbBTerm::getModNet
  modITermNet,    \* dbModITerm::getModNet (ABSENT: no such module terminal)
  modBTermNet,    \* dbModBTerm::getModNet (ABSENT: no such boundary port)
  net_drvr_pin_map_, \* Network::net_drvr_pin_map_, net -> set of driver pins
  wasDeleted,     \* history: flat nets deleted while their entry held a driver
  vpc,            \* traversal: "idle", "run", "done", "crashed"
  vstart,         \* net of the top-level visitConnectedPins call
  vpurpose,       \* "visit" or "drivers"
  vstack,         \* call stack of visitConnectedPins frames
  visited_nets,   \* the NetSet passed through the recursion
  visitLog,       \* pins handed to the visitor, in order
  bodyLog,        \* nets whose body ran (passed the visited guard), in order
  q,              \* last query and its answer
  idq,            \* last pair of identifier computations
  bTermType,      \* dbBTerm::getSigType / getIoType (NoType: no such terminal)
  iTermSigType,   \* dbITerm::getSigType
  portDirection,  \* direction of the port of each name (Port / LibertyPort)
  newInsts,       \* flat instances created through makeInstance
  library_seq_,   \* ConcreteNetwork::library_seq_: all libraries, in load order
  observers_,     \* dbNetwork::observers_
  block_,         \* dbNetwork::block_ (by name; NULL before a design is set)
  top_cell_,      \* dbNetwork::top_cell_: position of its library in library_seq_, 0 for null
  warnings,       \* warnings the logger was given by the last load
  regSeq,         \* history: observers in the order addObserver registered them
  iter,           \* the pin iterator in use, with the pins next() has returned
  destroyed,      \* module instances dbModInst::destroy was called on
  instName,       \* dbInst::getConstName of each flat instance
  netSigType,     \* dbNet::getSigType of each flat net
  notified        \* observer callbacks made by the load in progress or last

drvrVars == <<net_drvr_pin_map_, wasDeleted>>
dbVars == <<hierarchy_, nets, iTermNet, iTermModNet, bTermNet, bTermModNet,
            modITermNet, modBTermNet>>
visitVars == <<vpc, vstart, vpurpose, vstack, visited_nets, visitLog, bodyLog>>
typeVars == <<bTermType, iTermSigType, portDirection>>
libVars == <<library_seq_, observers_, notified, regSeq, block_, top_cell_, warnings>>
attrVars == <<instName, netSigType, destroyed, iter>>
extVars == <<typeVars, newInsts, libVars, attrVars>>
vars == <<hierarchy_, nets, iTermNet, iTermModNet, bTermNet, bTermModNet,
          modITermNet, modBTermNet, net_drvr_pin_map_, wasDeleted,
          vpc, vstart, vpurpose, vstack, visited_nets, visitLog, bodyLog,
          q, idq, bTermType, iTermSigType, portDirection, newInsts,
          library_seq_, observers_, notified, regSeq, block_, top_cell_, warnings,
          instName, netSigType, destroyed, iter>>

\* dbNetwork::dbToSta(const dbSigType&, const dbIoType&): the port direction
\* of a signal-type/IO-type pair; the signal type dominates for supplies.
SigTypes == {"SIGNAL", "POWER", "GROUND", "CLOCK"}
NoType == [sig |-> "none", io |-> "none"]
IoTypes == {"INPUT", "OUTPUT", "INOUT", "FEEDTHRU"}
dbToSta_Direction(sig_type, io_type) ==
  IF sig_type = "POWER" THEN "power"
  ELSE IF sig_type = "GROUND" THEN "ground"
  ELSE IF io_type = "INPUT" THEN "input"
  ELSE IF io_type = "OUTPUT" THEN "output"
  ELSE "bidirect"

\* dbNetwork::direction(const Pin*): a boundary terminal's direction comes
\* from its signal-type/IO-type pair; the terminals of the instances and
\* modules of the design have the direction of their port.
PinDirection(p) ==
  IF p.k = "BTerm"
    THEN IF bTermType[p] = NoType THEN "unknown"
         ELSE dbToSta_Direction(bTermType[p].sig, bTermType[p].io)
    ELSE IF p.n = "Z" THEN "output" ELSE "input"

\* ------------------------------------------------------------------------
\* Database queries used by the adapter.

dbNet_getITerms(n) == SelectSeq(ITermSeq, LAMBDA p : iTermNet[p] = n)
dbNet_getBTerms(n) == SelectSeq(BTermSeq, LAMBDA p : bTermNet[p] = n)
dbModNet_getITerms(m) == SelectSeq(ITermSeq, LAMBDA p : iTermModNet[p] = m)
dbModNet_getBTerms(m) ==
  SelectSeq(BTermSeq, LAMBDA p : bTermNet[p] # ABSENT /\ bTermModNet[p] = m)
dbModNet_getModBTerms(m) == SelectSeq(ModBTermSeq, LAMBDA p : modBTermNet[p] = m)
dbModNet_getModITerms(m) == SelectSeq(ModITermSeq, LAMBDA p : modITermNet[p] = m)

findModBTerm(module, name) ==
  LET p == Pin("ModBTerm", module, name)
  IN IF p \in ModBTerms /\ modBTermNet[p] # ABSENT THEN p ELSE NullPin

findModITerm(inst, name) ==
  LET p == Pin("ModITerm", inst, name)
  IN IF p \in ModITerms /\ modITermNet[p] # ABSENT THEN p ELSE NullPin

\* ------------------------------------------------------------------------
\* staToDb(const Net*, dbNet*&, dbModNet*&): classification by object type.
staToDb_Net(n) ==
  [dnet |-> IF n \in DbNets THEN n ELSE NULL,
   modnet |-> IF n \in ModNets THEN n ELSE NULL]

\* staToDb(const Pin*, ...): exactly one alternative set, the others null.
staToDb_Pin(p) ==
  [iterm |-> IF p.k = "ITerm" THEN p ELSE NullPin,
   bterm |-> IF p.k = "BTerm" THEN p ELSE NullPin,
   moditerm |-> IF p.k = "ModITerm" THEN p ELSE NullPin,
   modbterm |-> IF p.k = "ModBTerm" THEN p ELSE NullPin]

\* dbNetwork::net(const Pin*).  The mutant tests the flat net of an instance
\* terminal before its module net.
net_Pin_flatFirst(pin) ==
  LET d == staToDb_Pin(pin)
  IN IF d.iterm # NullPin /\ iTermNet[d.iterm] # NULL
       THEN iTermNet[d.iterm]
     ELSE IF d.iterm # NullPin /\ iTermModNet[d.iterm] # NULL
       THEN iTermModNet[d.iterm]
     ELSE IF d.bterm # NullPin THEN NULL
     ELSE IF d.moditerm # NullPin THEN modITermNet[d.moditerm]
     ELSE IF d.modbterm # NullPin THEN modBTermNet[d.modbterm]
     ELSE NULL

net_Pin(pin) ==
  LET d == staToDb_Pin(pin)
  IN IF d.iterm # NullPin /\ iTermModNet[d.iterm] # NULL
       THEN iTermModNet[d.iterm]
     ELSE IF d.iterm # NullPin /\ iTermNet[d.iterm] # NULL
       THEN iTermNet[d.iterm]
     ELSE IF d.bterm # NullPin THEN NULL
     ELSE IF d.moditerm # NullPin THEN modITermNet[d.moditerm]
     ELSE IF d.modbterm # NullPin THEN modBTermNet[d.modbterm]
     ELSE NULL

\* dbNetwork::net(const Term*); a term handle is a BTerm or a ModBTerm.
net_Term(term) ==
  LET d == staToDb_Pin(term)
  IN IF d.modbterm # NullPin THEN modBTermNet[d.modbterm]
     ELSE IF d.bterm # NullPin /\ bTermModNet[d.bterm] # NULL
       THEN bTermModNet[d.bterm]
     ELSE IF d.bterm # NullPin /\ bTermNet[d.bterm] # NULL
       THEN bTermNet[d.bterm]
     ELSE NULL

\* ------------------------------------------------------------------------
\* The driver index maps a net to its entry; a net without an entry (findKey
\* returns null) is NoEntry.
NoEntry == [has |-> FALSE, drvrs |-> {}]
EntryOf(S) == [has |-> TRUE, drvrs |-> S]
findKey(map, net) == net \in DOMAIN map /\ map[net].has

\* ------------------------------------------------------------------------
\* Initial design: flat connectivity is fixed, the hierarchical associations
\* are drawn from every combination the database can hold.
ModNetsIn(module) == {m \in ModNets : ModNetModule[m] = module}

InitFlat ==
  /\ nets = DbNets
  /\ iTermNet = [p \in ITerms |-> IF p.o \in {"u1", "u2", "g1"} THEN "n1"
                                  ELSE "n2"]
  /\ bTermNet = [p \in BTerms |-> "n2"]
  /\ bTermType = [p \in BTerms |-> [sig |-> "SIGNAL", io |-> "OUTPUT"]]

\* Port directions of the design's cells.
PortNames == {"po", "Z", "A", "p", "q"}
InitPorts == portDirection = [n \in PortNames |-> IF n \in {"Z", "po"} THEN "output"
                                                  ELSE "input"]

\* No library loaded, no observer registered, no instance created.
InitLibs ==
  /\ newInsts = {}
  /\ destroyed = {}
  /\ library_seq_ = <<>>
  /\ block_ = NULL
  /\ top_cell_ = 0
  /\ warnings = {}
  /\ observers_ = {}
  /\ notified = <<>>
  /\ regSeq = <<>>

\* Names are sequences of characters; only the path divider is told apart
\* from the rest, which are kept as whole words.
Divider == "/"
Name(word) == <<word>>
Join(path, name) == path \o <<Divider>> \o name

\* dbInst::getConstName: the full hierarchical name of a flat instance.
InstPathName ==
  [i \in Insts |-> CASE i = "g1" -> Join(Join(Name("a"), Name("b")), Name("g1"))
                     [] i = "g2" -> Join(Name("a"), Name("g2"))
                     [] OTHER -> Name(i)]

InitNames == instName = InstPathName

\* No iterator has been made.
NoIterator ==
  [kind |-> "none", of |-> NULL, top_ |-> FALSE, iitr_ |-> <<>>, bitr_ |-> <<>>,
   mitr_ |-> <<>>, next_ |-> NullPin, has |-> FALSE, yielded |-> <<>>]

InitCalls ==
  /\ iter = NoIterator
  /\ vpc = "idle"
  /\ vstart = NULL
  /\ vpurpose = "visit"
  /\ vstack = <<>>
  /\ visited_nets = {}
  /\ visitLog = <<>>
  /\ bodyLog = <<>>
  /\ q = [op |-> "none"]
  /\ idq = [op |-> "none"]
  /\ net_drvr_pin_map_ = [n \in DbNets \cup ModNets |-> NoEntry]
  /\ wasDeleted = {}

InitIdle ==
  /\ InitCalls
  /\ InitPorts
  /\ InitLibs
  /\ InitNames
  /\ iTermSigType = [p \in ITerms |-> "SIGNAL"]
  /\ netSigType = [n \in DbNets |-> "SIGNAL"]

InitDesign ==
  /\ InitFlat
  /\ InitIdle
  /\ iTermModNet \in [ITerms -> ModNets \cup {NULL}]
  /\ \A p \in ITerms :
       iTermModNet[p] \in {NULL} \cup ModNetsIn(InstModule[p.o])
  /\ iTermModNet[Pin("ITerm", "u2", "A")] = NULL
  /\ iTermModNet[Pin("ITerm", "g2", "Z")] = NULL
  /\ bTermModNet \in [BTerms -> {NULL} \cup ModNetsIn(TopModule)]
  /\ modITermNet \in [ModITerms -> ModNets \cup {NULL, ABSENT}]
  /\ \A p \in ModITerms :
       modITermNet[p] \in {NULL, ABSENT} \cup ModNetsIn(ModInstParent[p.o])
  /\ modBTermNet \in [ModBTerms -> ModNets \cup {NULL, ABSENT}]
  /\ \A p \in ModBTerms :
       modBTermNet[p] \in {NULL, ABSENT} \cup ModNetsIn(p.o)

\* ------------------------------------------------------------------------
\* visitConnectedPins as a stack machine.  A frame is one activation:
\* phase "enter" is the guard and the direct visits, "below"/"above" are the
\* two recursion loops with idx the position in the loop.
Frame(n, ph, i) == [net |-> n, phase |-> ph, idx |-> i]

\* Bound on the recursion depth explored; the guard keeps every net's body
\* to one activation, so the depth stays below it.
MaxDepth == 6
TopFrame == vstack[Len(vstack)]
Pop(s) == SubSeq(s, 1, Len(s) - 1)
ReplaceTop(s, f) == Append(Pop(s), f)

\* The activation returns; the top-level call returning ends the traversal.
Return(stk) ==
  /\ vstack' = Pop(stk)
  /\ vpc' = IF Len(stk) = 1 THEN "done" ELSE "run"

\* Top-level call with an empty visited-nets set.
VisitStart(n) ==
  /\ vpc = "idle"
  /\ vpc' = "run"
  /\ vstart' = n
  /\ vpurpose' = "visit"
  /\ vstack' = <<Frame(n, "enter", 0)>>
  /\ visited_nets' = {}
  /\ visitLog' = <<>>
  /\ bodyLog' = <<>>
  /\ q' = [op |-> "none"]
  /\ UNCHANGED <<dbVars, drvrVars, idq, extVars>>

\* The visited-nets guard.  The mutant never finds the net visited.
AlreadyVisited_never(n) == FALSE

AlreadyVisited(n) == n \in visited_nets

\* Visit below: the boundary terminal inside the instance's master module
\* that has the module terminal's name.  The mutant searches the module the
\* instance sits in instead of the instance's master.
BelowPin_parentModule(moditerm) ==
  findModBTerm(ModInstParent[moditerm.o], moditerm.n)

BelowPin(moditerm) == findModBTerm(ModInstMaster[moditerm.o], moditerm.n)

\* Visit above: the module terminal of the module's instance that has the
\* boundary terminal's name.
AbovePin(modbterm) == findModITerm(ModuleModInst[modbterm.o], modbterm.n)

\* The pins visited for a module net itself: its instance terminals, its
\* boundary terminals, its module boundary terminals and its module terminals.
visitModNetPins(modnet) ==
  dbModNet_getITerms(modnet) \o dbModNet_getBTerms(modnet)
    \o dbModNet_getModBTerms(modnet) \o dbModNet_getModITerms(modnet)

\* The pins visited for a flat net: its instance terminals, then its
\* boundary terminals.  The mutant leaves the boundary terminals out.
visitFlatNetPins_noBTerms(dnet) == dbNet_getITerms(dnet)

visitFlatNetPins(dnet) == dbNet_getITerms(dnet) \o dbNet_getBTerms(dnet)

\* Entry of an activation: guard, mark visited, visit the directly listed pins.
VisitEnter ==
  /\ vpc = "run"
  /\ Len(vstack) > 0
  /\ TopFrame.phase = "enter"
  /\ LET n == TopFrame.net
         d == staToDb_Net(n)
     IN IF AlreadyVisited(n)
          THEN /\ Return(vstack)
               /\ UNCHANGED <<visited_nets, visitLog, bodyLog>>
          ELSE /\ visited_nets' = visited_nets \cup {n}
               /\ bodyLog' = Append(bodyLog, n)
               /\ IF d.modnet # NULL
                    THEN /\ visitLog' = visitLog \o visitModNetPins(d.modnet)
                         /\ vstack' = ReplaceTop(vstack, Frame(n, "below", 1))
                         /\ vpc' = "run"
                  ELSE IF d.dnet # NULL
                    THEN /\ visitLog' = visitLog \o visitFlatNetPins(d.dnet)
                         /\ Return(vstack)
                  ELSE /\ visitLog' = visitLog
                       /\ Return(vstack)
  /\ UNCHANGED <<dbVars, drvrVars, vstart, vpurpose, q, idq, extVars>>

\* One iteration of the "visit below nets" loop.  The module boundary
\* terminal is looked up by name and used without a null check: when it is
\* missing, name(below_pin) dereferences a null pointer and the call either
\* aborts or carries on with the null pin.
VisitBelow ==
  /\ vpc = "run"
  /\ Len(vstack) > 0
  /\ TopFrame.phase = "below"
  /\ LET n == TopFrame.net
         l == dbModNet_getModITerms(n)
         i == TopFrame.idx
     IN IF i > Len(l)
          THEN /\ vstack' = ReplaceTop(vstack, Frame(n, "above", 1))
               /\ UNCHANGED <<vpc, visitLog>>
          ELSE LET moditerm == l[i]
                   mod_bterm == BelowPin(moditerm)
                   below_net == net_Pin(mod_bterm)
               IN \/ /\ mod_bterm = NullPin
                     /\ vpc' = "crashed"
                     /\ UNCHANGED <<vstack, visitLog>>
                  \/ /\ Len(vstack) < MaxDepth
                     /\ visitLog' = Append(visitLog, mod_bterm)
                     /\ vstack' = Append(ReplaceTop(vstack, Frame(n, "below", i + 1)),
                                         Frame(below_net, "enter", 0))
                     /\ UNCHANGED vpc
  /\ UNCHANGED <<dbVars, drvrVars, vstart, vpurpose,
                 visited_nets, bodyLog, q, idq, extVars>>

\* One iteration of the "visit above nets" loop; a boundary terminal with no
\* module terminal on the parent instance is skipped.
VisitAbove ==
  /\ vpc = "run"
  /\ Len(vstack) > 0
  /\ TopFrame.phase = "above"
  /\ LET n == TopFrame.net
         l == dbModNet_getModBTerms(n)
         i == TopFrame.idx
     IN IF i > Len(l)
          THEN /\ Return(vstack)
               /\ UNCHANGED visitLog
          ELSE LET modbterm == l[i]
                   mod_iterm == AbovePin(modbterm)
                   above_net == net_Pin(mod_iterm)
               IN IF mod_iterm # NullPin
                    THEN /\ Len(vstack) < MaxDepth
                         /\ visitLog' = Append(visitLog, mod_iterm)
                         /\ vstack' = Append(ReplaceTop(vstack, Frame(n, "above", i + 1)),
                                             Frame(above_net, "enter", 0))
                         /\ UNCHANGED vpc
                    ELSE /\ vstack' = ReplaceTop(vstack, Frame(n, "above", i + 1))
                         /\ UNCHANGED <<vpc, visitLog>>
  /\ UNCHANGED <<dbVars, drvrVars, vstart, vpurpose,
                 visited_nets, bodyLog, q, idq, extVars>>

\* The caller takes the result of a finished (or aborted) traversal.
VisitReturn ==
  /\ vpc \in {"done", "crashed"}
  /\ vpurpose = "visit"
  /\ vpc' = "idle"
  /\ vstart' = NULL
  /\ vstack' = <<>>
  /\ visited_nets' = {}
  /\ visitLog' = <<>>
  /\ bodyLog' = <<>>
  /\ UNCHANGED <<dbVars, drvrVars, vpurpose, q, idq, extVars>>

VisitStep == VisitEnter \/ VisitBelow \/ VisitAbove

NextVisit ==
  \/ \E n \in nets \cup ModNets : VisitStart(n)
  \/ VisitEnter
  \/ VisitBelow
  \/ VisitAbove
  \/ VisitReturn

InitVisit == InitDesign /\ hierarchy_ = TRUE

SpecVisit == InitVisit /\ [][NextVisit]_vars

SpecVisitFair == SpecVisit /\ WF_vars(VisitStep)

\* ------------------------------------------------------------------------
\* Connectivity as the database defines it, independent of the traversal:
\* two module nets are joined when a module terminal on one and the
\* same-named boundary terminal of the instance's module on the other exist.
Count(x, s) == Cardinality({i \in 1..Len(s) : s[i] = x})
NoDuplicates(s) == \A i, j \in 1..Len(s) : s[i] = s[j] => i = j

NetsBelow(m) ==
  {modBTermNet[findModBTerm(ModInstMaster[mi.o], mi.n)] :
     mi \in {x \in ModITerms : modITermNet[x] = m
                               /\ findModBTerm(ModInstMaster[x.o], x.n) # NullPin}}
  \ {NULL}

NetsAbove(m) ==
  {modITermNet[findModITerm(ModuleModInst[mb.o], mb.n)] :
     mb \in {x \in ModBTerms : modBTermNet[x] = m
                               /\ findModITerm(ModuleModInst[x.o], x.n) # NullPin}}
  \ {NULL}

RECURSIVE ClosureBelow(_)
ClosureBelow(S) ==
  LET T == S \cup UNION {NetsBelow(m) : m \in S}
  IN IF T = S THEN S ELSE ClosureBelow(T)

RECURSIVE ClosureBoth(_)
ClosureBoth(S) ==
  LET T == S \cup UNION {NetsBelow(m) \cup NetsAbove(m) : m \in S}
  IN IF T = S THEN S ELSE ClosureBoth(T)

ConnectedNets(n) == IF n \in ModNets THEN ClosureBoth({n}) ELSE {n}

\* Pins listed on a net, and the matching terminal on the other side of a
\* module boundary (which is connected through the boundary even when it has
\* no net of its own).
PinsOn(n) ==
  IF n \in ModNets
    THEN Range(dbModNet_getITerms(n)) \cup Range(dbModNet_getBTerms(n))
         \cup Range(dbModNet_getModBTerms(n)) \cup Range(dbModNet_getModITerms(n))
         \cup {findModBTerm(ModInstMaster[mi.o], mi.n) :
                 mi \in Range(dbModNet_getModITerms(n))}
         \cup {findModITerm(ModuleModInst[mb.o], mb.n) :
                 mb \in Range(dbModNet_getModBTerms(n))}
    ELSE Range(dbNet_getITerms(n)) \cup Range(dbNet_getBTerms(n))

ConnectedPins(n) == (UNION {PinsOn(m) : m \in ConnectedNets(n)}) \ {NullPin}

\* Flat terminals reached from a module net by going down only.
LeavesBelow(n) ==
  UNION {Range(dbModNet_getITerms(m)) :
           m \in ClosureBelow({n}) \ {n}}

\* C2 (as stated): one top-level visitConnectedPins call hands every pin
\* transitively connected to the net to the visitor exactly once.
C2_EachPinExactlyOnce ==
  vpc = "done" =>
    \A p \in Pins : Count(p, visitLog) = IF p \in ConnectedPins(vstart) THEN 1 ELSE 0

\* The completeness half alone: the pins visited are the connected pins.
VisitedAreConnected ==
  vpc = "done" => Range(visitLog) \ {NullPin} = ConnectedPins(vstart)

\* C7: every activation passes the visited-nets guard at most once per net,
\* and a started traversal always stops (it returns, or aborts on the null
\* boundary terminal), also on designs where nets reach each other in a cycle.
C7_Terminates ==
  /\ [](NoDuplicates(bodyLog))
  /\ ((vpc = "run") ~> (vpc \in {"done", "crashed"}))

\* C7 witness: a finished traversal from the top net that went down two
\* module levels and came back up to nets already visited.
C7_Witness ==
  /\ vpc = "done"
  /\ vstart = "t1"
  /\ visited_nets = {"t1", "a1", "b1"}
  /\ Count(Pin("ModITerm", "a", "p"), visitLog) > 1

\* C8: a finished traversal of a module net has visited every leaf flat
\* terminal on the nets reached by going down through module terminals and
\* their same-named boundary terminals, at any depth.
C8_VisitBelowReachesLeaves ==
  (vpc = "done" /\ vstart \in ModNets) =>
     LeavesBelow(vstart) \subseteq Range(visitLog)

\* C8 witness: the leaf g1.A sits two module levels below the top net.
C8_Witness ==
  /\ vpc = "done"
  /\ vstart = "t1"
  /\ Pin("ITerm", "g1", "A") \in LeavesBelow("t1")
  /\ iTermModNet[Pin("ITerm", "g1", "A")] = "b1"
  /\ Pin("ITerm", "g1", "A") \in Range(visitLog)

\* ------------------------------------------------------------------------
\* Instances: TopInstance, a flat instance (dbInst) or a module instance
\* (dbModInst).  staToDb(const Instance*, dbInst*&, dbModInst*&).
staToDb_Instance(instance) ==
  [db_inst |-> IF instance \in Insts THEN instance ELSE NULL,
   mod_inst |-> IF instance \in ModInsts THEN instance ELSE NULL]

dbModule_getInsts(module) == SelectSeq(InstSeq, LAMBDA i : InstModule[i] = module)
dbModule_getModInsts(module) ==
  SelectSeq(ModInstSeq, LAMBDA i : ModInstParent[i] = module)

\* DbInstanceChildIterator: the sequence next() yields until hasNext() is
\* false; flat instances first, then module instances.  The mutant takes the
\* block's instances for the top instance in both modes.
childIterator_blockInstsAtTop(instance) ==
  IF instance = TopInstance THEN InstSeq
  ELSE IF hierarchy_ /\ staToDb_Instance(instance).mod_inst # NULL
    THEN dbModule_getInsts(ModInstMaster[instance])
           \o dbModule_getModInsts(ModInstMaster[instance])
  ELSE <<>>

childIterator(instance) ==
  IF ~hierarchy_
    THEN IF instance = TopInstance THEN InstSeq ELSE <<>>
    ELSE LET module == IF instance = TopInstance THEN TopModule
                       ELSE IF staToDb_Instance(instance).mod_inst # NULL
                         THEN ModInstMaster[instance]
                       ELSE NULL
         IN IF module # NULL
              THEN dbModule_getInsts(module) \o dbModule_getModInsts(module)
              ELSE <<>>

\* dbNetwork::parent.
parent(instance) ==
  IF instance = TopInstance THEN NULL
  ELSE LET d == staToDb_Instance(instance)
       IN IF d.mod_inst # NULL /\ ModuleModInst[ModInstParent[d.mod_inst]] # NULL
            THEN ModuleModInst[ModInstParent[d.mod_inst]]
            ELSE TopInstance

\* ------------------------------------------------------------------------
\* Queries of the navigation and resolution layer on a loaded design.
ExistingPins ==
  ITerms \cup {p \in BTerms : bTermNet[p] # ABSENT}
         \cup {p \in ModITerms : modITermNet[p] # ABSENT}
         \cup {p \in ModBTerms : modBTermNet[p] # ABSENT}

QueryNetOfPin(p) ==
  /\ vpc = "idle"
  /\ q' = [op |-> "net", arg |-> p, res |-> net_Pin(p)]
  /\ UNCHANGED <<dbVars, drvrVars, visitVars, idq, extVars>>

\* term(pin) of a boundary or module boundary terminal is the same handle.
QueryNetOfTerm(t) ==
  /\ vpc = "idle"
  /\ q' = [op |-> "termnet", arg |-> t, res |-> net_Term(t)]
  /\ UNCHANGED <<dbVars, drvrVars, visitVars, idq, extVars>>

\* parent() applied to the i-th instance childIterator(m) yields.
QueryParentOfChild(m, i) ==
  /\ vpc = "idle"
  /\ i \in 1..Len(childIterator(m))
  /\ q' = [op |-> "parent", arg |-> m, child |-> childIterator(m)[i],
           res |-> parent(childIterator(m)[i])]
  /\ UNCHANGED <<dbVars, drvrVars, visitVars, idq, extVars>>

MaxChildren == 4

NextNav ==
  \/ \E p \in ExistingPins : QueryNetOfPin(p)
  \/ \E t \in ExistingPins : t.k \in {"BTerm", "ModBTerm"} /\ QueryNetOfTerm(t)
  \/ \E m \in {TopInstance} \cup Insts \cup ModInsts :
       \E i \in 1..MaxChildren : QueryParentOfChild(m, i)

InitNav == InitDesign /\ hierarchy_ \in BOOLEAN

SpecNav == InitNav /\ [][NextNav]_vars

\* The flat net and the module net a pin is associated with.
FlatNetOf(p) ==
  IF p.k = "ITerm" THEN iTermNet[p]
  ELSE IF p.k = "BTerm" THEN bTermNet[p]
  ELSE NULL

ModNetOf(p) ==
  IF p.k = "ITerm" THEN iTermModNet[p]
  ELSE IF p.k = "BTerm" THEN bTermModNet[p]
  ELSE IF p.k = "ModITerm" THEN modITermNet[p]
  ELSE modBTermNet[p]

HasBothNets(p) ==
  /\ FlatNetOf(p) \notin {NULL, ABSENT}
  /\ ModNetOf(p) \notin {NULL, ABSENT}

\* C4 (as stated): net(P) of any pin with both a flat net and a module net
\* is the module net.
C4_NetPrefersModNet ==
  (q.op = "net" /\ HasBothNets(q.arg)) => q.res = ModNetOf(q.arg)

\* C4 (amended): net(P) of a flat terminal with both nets is the module net;
\* net(P) of a boundary terminal is empty, and it is net(term(P)) that
\* returns the module net of a boundary terminal with both nets.
C4_NetPrefersModNetAmended ==
  /\ (q.op = "net" /\ q.arg.k = "ITerm" /\ HasBothNets(q.arg))
        => q.res = ModNetOf(q.arg)
  /\ (q.op = "net" /\ q.arg.k = "BTerm") => q.res = NULL
  /\ (q.op = "termnet" /\ q.arg.k = "BTerm" /\ HasBothNets(q.arg))
        => q.res = ModNetOf(q.arg)

\* C4 witness: net() was asked for the flat terminal u1.Z, which is on flat
\* net n1 and on module net t1.
C4_Witness ==
  /\ q.op = "net"
  /\ q.arg = Pin("ITerm", "u1", "Z")
  /\ iTermNet[q.arg] = "n1"
  /\ iTermModNet[q.arg] = "t1"
  /\ q.res = "t1"

\* C5 (as stated): parent(C) = M for every instance C that
\* childIterator(M) yields for a module instance M.
C5_ParentOfChild ==
  (q.op = "parent" /\ q.arg \in ModInsts) => q.res = q.arg

\* ------------------------------------------------------------------------
\* Object identifiers.  ObjectId is an unsigned integer of ObjectIdBits bits
\* (32 in the build; the model keeps the arithmetic and scales the width).
ObjectIdBits == 8
DBIDTAG_WIDTH == 4

RECURSIVE Pow2(_)
Pow2(n) == IF n = 0 THEN 1 ELSE 2 * Pow2(n - 1)

ObjectIdMax == Pow2(ObjectIdBits) - 1
ShiftRight(x, n) == x \div Pow2(n)
\* Left shift in ObjectIdBits-bit unsigned arithmetic.
ShiftLeft(x, n) == (x * Pow2(n)) % Pow2(ObjectIdBits)

\* The outcome of logger_->error: no identifier is returned.
FATAL == -1

DbObjectTypes == {"dbITermObj", "dbBTermObj", "dbInstObj", "dbNetObj",
                  "dbModITermObj", "dbModBTermObj", "dbModInstObj",
                  "dbModNetObj", "dbModuleObj"}

\* The type tags or-ed into the low bits, one per database object type.
DBITERM_ID == 0
DBBTERM_ID == 1
DBINST_ID == 2
DBNET_ID == 3
DBMODITERM_ID == 4
DBMODBTERM_ID == 5
DBMODINST_ID == 6
DBMODNET_ID == 7
DBMODULE_ID == 8

\* The switch of getDbNwkObjectId: the tag of each listed type.  The mutant
\* gives module instances the tag of flat instances.
DbIdTag_modInstAsInst(typ) ==
  CASE typ = "dbITermObj" -> DBITERM_ID
    [] typ = "dbBTermObj" -> DBBTERM_ID
    [] typ = "dbInstObj" -> DBINST_ID
    [] typ = "dbNetObj" -> DBNET_ID
    [] typ = "dbModITermObj" -> DBMODITERM_ID
    [] typ = "dbModBTermObj" -> DBMODBTERM_ID
    [] typ = "dbModInstObj" -> DBINST_ID
    [] typ = "dbModNetObj" -> DBMODNET_ID
    [] typ = "dbModuleObj" -> DBMODULE_ID

DbIdTag(typ) ==
  CASE typ = "dbITermObj" -> DBITERM_ID
    [] typ = "dbBTermObj" -> DBBTERM_ID
    [] typ = "dbInstObj" -> DBINST_ID
    [] typ = "dbNetObj" -> DBNET_ID
    [] typ = "dbModITermObj" -> DBMODITERM_ID
    [] typ = "dbModBTermObj" -> DBMODBTERM_ID
    [] typ = "dbModInstObj" -> DBMODINST_ID
    [] typ = "dbModNetObj" -> DBMODNET_ID
    [] typ = "dbModuleObj" -> DBMODULE_ID

\* dbNetwork::getDbNwkObjectId: the capacity check comes first, then the
\* switch, whose default case is an error; the tag is below
\* 2^DBIDTAG_WIDTH, so or-ing it in adds it.
getDbNwkObjectId(typ, db_id) ==
  IF db_id > ShiftRight(ObjectIdMax, DBIDTAG_WIDTH) THEN FATAL
  ELSE IF typ \notin DbObjectTypes THEN FATAL
  ELSE ShiftLeft(db_id, DBIDTAG_WIDTH) + DbIdTag(typ)

\* An entity is a logical handle: its role in the network, the native type
\* of the database object behind it and that object's sequence number.
Entity(r, t, n) == [role |-> r, typ |-> t, num |-> n]
TopEntity == Entity("Instance", "top", 0)

\* dbNetwork::id(const Instance*)
id_Instance(e) ==
  IF e = TopEntity THEN 0
  ELSE IF hierarchy_ THEN getDbNwkObjectId(e.typ, e.num)
  ELSE e.num

\* dbNetwork::id(const Pin*)
id_Pin(e) ==
  IF hierarchy_ THEN getDbNwkObjectId(e.typ, e.num)
  ELSE IF e.typ = "dbITermObj" THEN ShiftLeft(e.num, 1)
  ELSE IF e.typ = "dbBTermObj" THEN ShiftLeft(e.num, 1) + 1
  ELSE 0

\* dbNetwork::id(const Net*)
id_Net(e) ==
  IF hierarchy_ THEN getDbNwkObjectId(e.typ, e.num) ELSE e.num

\* dbNetwork::id(const Term*)
id_Term(e) ==
  IF hierarchy_ THEN getDbNwkObjectId(e.typ, e.num) ELSE e.num

id(e) ==
  CASE e.role = "Instance" -> id_Instance(e)
    [] e.role = "Pin" -> id_Pin(e)
    [] e.role = "Net" -> id_Net(e)
    [] e.role = "Term" -> id_Term(e)

\* Native sequence numbers start at 1; the samples sit at the low end and
\* around the capacity limits of the two shifts.
NativeIds ==
  {1, 2, 3,
   Pow2(ObjectIdBits - DBIDTAG_WIDTH) - 1, Pow2(ObjectIdBits - DBIDTAG_WIDTH),
   Pow2(ObjectIdBits - 1) - 1, Pow2(ObjectIdBits - 1), Pow2(ObjectIdBits - 1) + 1,
   ObjectIdMax}

\* Native types behind each role: all of them in a hierarchical design, only
\* the flat ones when hierarchy is disabled.
RoleTypes(hier) ==
  IF hier
    THEN {<<"Instance", "dbInstObj">>, <<"Instance", "dbModInstObj">>,
          <<"Pin", "dbITermObj">>, <<"Pin", "dbBTermObj">>,
          <<"Pin", "dbModITermObj">>, <<"Pin", "dbModBTermObj">>,
          <<"Net", "dbNetObj">>, <<"Net", "dbModNetObj">>,
          <<"Term", "dbBTermObj">>, <<"Term", "dbModBTermObj">>}
    ELSE {<<"Instance", "dbInstObj">>, <<"Pin", "dbITermObj">>,
          <<"Pin", "dbBTermObj">>, <<"Net", "dbNetObj">>,
          <<"Term", "dbBTermObj">>}

Entities(hier) ==
  {TopEntity} \cup {Entity(rt[1], rt[2], n) : rt \in RoleTypes(hier), n \in NativeIds}

\* Identifiers are computed for two entities of the freshly loaded design.
Identify(e1, e2) ==
  /\ idq.op = "none"
  /\ idq' = [op |-> "id", e1 |-> e1, r1 |-> id(e1), e2 |-> e2, r2 |-> id(e2)]
  /\ UNCHANGED <<dbVars, drvrVars, visitVars, q, extVars>>

NextId == \E e1, e2 \in Entities(hierarchy_) : Identify(e1, e2)

InitId ==
  /\ InitFlat
  /\ InitIdle
  /\ hierarchy_ \in BOOLEAN
  /\ iTermModNet = [p \in ITerms |-> NULL]
  /\ bTermModNet = [p \in BTerms |-> NULL]
  /\ modITermNet = [p \in ModITerms |-> NULL]
  /\ modBTermNet = [p \in ModBTerms |-> NULL]

SpecId == InitId /\ [][NextId]_vars

\* Two handles to one database object (a boundary terminal as Pin and Term).
SameObject(e1, e2) == e1.typ = e2.typ /\ e1.num = e2.num

\* The number of bits the identifier scheme shifts an entity's native number.
ShiftOf(e) ==
  IF e = TopEntity THEN 0
  ELSE IF hierarchy_ THEN DBIDTAG_WIDTH
  ELSE IF e.role = "Pin" THEN 1
  ELSE 0

\* The native number does not fit the identifier width once shifted.
Overflows(e) == e.num * Pow2(ShiftOf(e)) > ObjectIdMax

C10_OverflowIsFatal ==
  (idq.op = "id" /\ Overflows(idq.e1)) => idq.r1 = FATAL

\* C11 (as stated): the top instance has identifier 0 in both schemes, and
\* no other entity (native numbers start at 1) is given identifier 0.
C11_ZeroIsTopOnly ==
  idq.op = "id" =>
    /\ (idq.e1 = TopEntity => idq.r1 = 0)
    /\ (idq.e1 # TopEntity => idq.r1 # 0)

\* ------------------------------------------------------------------------
\* Edit operations and the incremental driver index.

\* Network::isDriver: a pin whose direction is output.
isDriver(pin) == pin # NullPin /\ PinDirection(pin) = "output"

\* dbNetwork::connectPinAfter, run once the pin is connected: the net is
\* read from the database as it is after the connect.  The mutant does not
\* ask whether the net has an entry.
connectPinAfter_createsEntry(map, pin) ==
  LET net == net_Pin(pin)'
  IN IF isDriver(pin) /\ net \in DOMAIN map
       THEN [map EXCEPT ![net] = EntryOf(@.drvrs \cup {pin})]
       ELSE map

connectPinAfter(map, pin) ==
  LET net == net_Pin(pin)'
  IN IF isDriver(pin) /\ findKey(map, net)
       THEN [map EXCEPT ![net] = EntryOf(@.drvrs \cup {pin})]
       ELSE map

\* dbNetwork::disconnectPinBefore, run while the pin is still connected.
disconnectPinBefore(map, pin) ==
  LET net == net_Pin(pin)
  IN IF net # NULL /\ isDriver(pin) /\ findKey(map, net)
       THEN [map EXCEPT ![net] = EntryOf(@.drvrs \ {pin})]
       ELSE map

\* dbNetwork::deleteNetBefore.  The mutant leaves the entry in the index.
deleteNetBefore_keepsEntry(map, net) == map

deleteNetBefore(map, net) ==
  IF net \in DOMAIN map THEN [map EXCEPT ![net] = NoEntry] ELSE map

\* disconnectPinBefore for each pin of a sequence, in order.
RECURSIVE disconnectAllBefore(_, _)
disconnectAllBefore(map, pins) ==
  IF pins = <<>> THEN map
  ELSE disconnectAllBefore(disconnectPinBefore(map, Head(pins)), Tail(pins))

\* The database disconnects a connected terminal before it connects it to
\* another net, and calls disconnectPinBefore first.
reconnectBefore(map, pin, old) ==
  IF old \in {NULL, ABSENT} THEN map ELSE disconnectPinBefore(map, pin)

\* dbNetwork::makeNet: only under the top instance.
makeNet(name, parent_inst) ==
  /\ vpc = "idle"
  /\ name \notin nets
  /\ IF parent_inst = TopInstance
       THEN nets' = nets \cup {name}
       ELSE UNCHANGED nets
  /\ UNCHANGED <<hierarchy_, iTermNet, iTermModNet, bTermNet, bTermModNet,
                 modITermNet, modBTermNet, drvrVars, visitVars, q, idq, extVars>>

\* dbNetwork::deleteNet: deleteNetBefore, then dbNet::destroy, which
\* disconnects the net's instance terminals (disconnectPinBefore runs for
\* each) and destroys its boundary terminals.
deleteNet(net) ==
  /\ vpc = "idle"
  /\ net \in nets
  /\ net_drvr_pin_map_' =
       disconnectAllBefore(deleteNetBefore(net_drvr_pin_map_, net),
                           dbNet_getITerms(net) \o dbNet_getBTerms(net))
  /\ wasDeleted' = IF net_drvr_pin_map_[net].drvrs # {}
                     THEN wasDeleted \cup {net} ELSE wasDeleted
  /\ nets' = nets \ {net}
  /\ iTermNet' = [p \in ITerms |-> IF iTermNet[p] = net THEN NULL ELSE iTermNet[p]]
  /\ bTermNet' = [p \in BTerms |-> IF bTermNet[p] = net THEN ABSENT ELSE bTermNet[p]]
  /\ bTermType' = [p \in BTerms |-> IF bTermNet[p] = net THEN NoType ELSE bTermType[p]]
  /\ UNCHANGED <<hierarchy_, iTermModNet, bTermModNet, modITermNet, modBTermNet,
                 visitVars, q, idq, iTermSigType, portDirection, newInsts,
                 libVars, attrVars>>

\* Ports of the instances edits are applied to.
PortsOf(inst) ==
  CASE inst = TopInstance -> {"po"}
    [] inst = "u1" -> {"Z"}
    [] inst = "u2" -> {"A"}
    [] OTHER -> {"p"}

\* dbNetwork::staToDb(PortDirection*, dbSigType&, dbIoType&): the
\* signal-type/IO-type pair of a direction; any other direction is critical.
HandledDirections == {"input", "output", "bidirect", "power", "ground"}
staToDb_Direction(dir) ==
  CASE dir = "input" -> [sig |-> "SIGNAL", io |-> "INPUT"]
    [] dir = "output" -> [sig |-> "SIGNAL", io |-> "OUTPUT"]
    [] dir = "bidirect" -> [sig |-> "SIGNAL", io |-> "INOUT"]
    [] dir = "power" -> [sig |-> "POWER", io |-> "INOUT"]
    [] dir = "ground" -> [sig |-> "GROUND", io |-> "INOUT"]

\* The pair dbBTerm::create gives a new boundary terminal.
NewBTermType == [sig |-> "SIGNAL", io |-> "INPUT"]

\* The answer of a connect call: the pin returned, or the critical error
\* that ended the call.
ConnectResult(overload, inst, port, net, pin, fatal) ==
  [op |-> "connect", overload |-> overload, inst |-> inst, port |-> port,
   net |-> net, res |-> pin, fatal |-> fatal]

\* dbNetwork::connect(Instance*, LibertyPort*, Net*) with the database's
\* callbacks around the connection (disconnectPinBefore when the terminal
\* was connected, connectPinAfter).  At the top the boundary terminal named
\* like the port is reused or created and its signal-type/IO-type pair is set
\* from the port's direction in both cases; under a flat instance the
\* instance terminal of the port is connected; a module instance is left
\* alone and the result is empty.
connect(inst, port, net) ==
  /\ vpc = "idle"
  /\ net \in nets
  /\ UNCHANGED <<hierarchy_, nets, iTermModNet, bTermModNet, modITermNet,
                 modBTermNet, wasDeleted, visitVars, idq, iTermSigType,
                 portDirection, newInsts, libVars, attrVars>>
  /\ IF inst = TopInstance
       THEN LET bterm == Pin("BTerm", TopModule, port)
                found == bTermNet[bterm] # ABSENT
                handled == portDirection[port] \in HandledDirections
            IN /\ bTermNet[bterm] # net
               /\ bTermNet' = [bTermNet EXCEPT ![bterm] = net]
               /\ iTermNet' = iTermNet
               /\ net_drvr_pin_map_' =
                    connectPinAfter(
                      reconnectBefore(net_drvr_pin_map_, bterm, bTermNet[bterm]),
                      bterm)
               /\ bTermType' =
                    [bTermType EXCEPT ![bterm] =
                       IF handled THEN staToDb_Direction(portDirection[port])
                       ELSE IF found THEN @
                       ELSE NewBTermType]
               /\ q' = ConnectResult("LibertyPort", inst, port, net,
                                     IF handled THEN bterm ELSE NullPin,
                                     ~handled)
     ELSE IF staToDb_Instance(inst).db_inst # NULL
       THEN LET iterm == Pin("ITerm", inst, port)
            IN /\ iTermNet[iterm] # net
               /\ iTermNet' = [iTermNet EXCEPT ![iterm] = net]
               /\ bTermNet' = bTermNet
               /\ bTermType' = bTermType
               /\ net_drvr_pin_map_' =
                    connectPinAfter(
                      reconnectBefore(net_drvr_pin_map_, iterm, iTermNet[iterm]),
                      iterm)
               /\ q' = ConnectResult("LibertyPort", inst, port, net, iterm, FALSE)
     ELSE /\ UNCHANGED <<bTermNet, bTermType, iTermNet, net_drvr_pin_map_>>
          /\ q' = ConnectResult("LibertyPort", inst, port, net, NullPin, FALSE)

\* dbNetwork::connect(Instance*, Port*, Net*): as above, except that at the
\* top the signal-type/IO-type pair is set only when the boundary terminal
\* is created; a boundary terminal that is found keeps the pair it has.
connectPort(inst, port, net) ==
  /\ vpc = "idle"
  /\ net \in nets
  /\ UNCHANGED <<hierarchy_, nets, iTermModNet, bTermModNet, modITermNet,
                 modBTermNet, wasDeleted, visitVars, idq, iTermSigType,
                 portDirection, newInsts, libVars, attrVars>>
  /\ IF inst = TopInstance
       THEN LET bterm == Pin("BTerm", TopModule, port)
                found == bTermNet[bterm] # ABSENT
                handled == portDirection[port] \in HandledDirections
            IN /\ bTermNet[bterm] # net
               /\ bTermNet' = [bTermNet EXCEPT ![bterm] = net]
               /\ iTermNet' = iTermNet
               /\ net_drvr_pin_map_' =
                    connectPinAfter(
                      reconnectBefore(net_drvr_pin_map_, bterm, bTermNet[bterm]),
                      bterm)
               /\ bTermType' =
                    [bTermType EXCEPT ![bterm] =
                       IF found THEN @
                       ELSE IF handled THEN staToDb_Direction(portDirection[port])
                       ELSE NewBTermType]
               /\ q' = ConnectResult("Port", inst, port, net,
                                     IF found \/ handled THEN bterm ELSE NullPin,
                                     ~found /\ ~handled)
     ELSE IF staToDb_Instance(inst).db_inst # NULL
       THEN LET iterm == Pin("ITerm", inst, port)
            IN /\ iTermNet[iterm] # net
               /\ iTermNet' = [iTermNet EXCEPT ![iterm] = net]
               /\ bTermNet' = bTermNet
               /\ bTermType' = bTermType
               /\ net_drvr_pin_map_' =
                    connectPinAfter(
                      reconnectBefore(net_drvr_pin_map_, iterm, iTermNet[iterm]),
                      iterm)
               /\ q' = ConnectResult("Port", inst, port, net, iterm, FALSE)
     ELSE /\ UNCHANGED <<bTermNet, bTermType, iTermNet, net_drvr_pin_map_>>
          /\ q' = ConnectResult("Port", inst, port, net, NullPin, FALSE)

\* dbNetwork::disconnectPin preceded by the database's pre-disconnect
\* callback disconnectPinBefore.
disconnectPin(pin) ==
  /\ vpc = "idle"
  /\ LET d == staToDb_Pin(pin)
     IN IF d.iterm # NullPin
          THEN /\ iTermNet[pin] # NULL
               /\ iTermNet' = [iTermNet EXCEPT ![pin] = NULL]
               /\ UNCHANGED bTermNet
        ELSE IF d.bterm # NullPin
          THEN /\ bTermNet[pin] \notin {NULL, ABSENT}
               /\ bTermNet' = [bTermNet EXCEPT ![pin] = NULL]
               /\ UNCHANGED iTermNet
        ELSE UNCHANGED <<iTermNet, bTermNet>>
  /\ net_drvr_pin_map_' = disconnectPinBefore(net_drvr_pin_map_, pin)
  /\ UNCHANGED <<hierarchy_, nets, iTermModNet, bTermModNet, modITermNet,
                 modBTermNet, wasDeleted, visitVars, q, idq, extVars>>

\* Network::drivers(net) on a net without an entry: the connected pins are
\* traversed and the drivers among them are stored as the net's entry.
DriversStart(n) ==
  /\ vpc = "idle"
  /\ ~findKey(net_drvr_pin_map_, n)
  /\ vpc' = "run"
  /\ vstart' = n
  /\ vpurpose' = "drivers"
  /\ vstack' = <<Frame(n, "enter", 0)>>
  /\ visited_nets' = {}
  /\ visitLog' = <<>>
  /\ bodyLog' = <<>>
  /\ UNCHANGED <<dbVars, drvrVars, q, idq, extVars>>

DriversFinish ==
  /\ vpc \in {"done", "crashed"}
  /\ vpurpose = "drivers"
  /\ net_drvr_pin_map_' =
       IF vpc = "done"
         THEN [net_drvr_pin_map_ EXCEPT
                 ![vstart] = EntryOf({p \in Range(visitLog) : isDriver(p)})]
         ELSE net_drvr_pin_map_
  /\ vpc' = "idle"
  /\ vstart' = NULL
  /\ vpurpose' = "visit"
  /\ vstack' = <<>>
  /\ visited_nets' = {}
  /\ visitLog' = <<>>
  /\ bodyLog' = <<>>
  /\ UNCHANGED <<dbVars, wasDeleted, q, idq, extVars>>

\* Module nets that carry a terminal.
LiveModNets == {m \in ModNets : PinsOn(m) # {}}

EditInstances == {TopInstance, "u1", "u2", "a"}

Next ==
  \/ \E name \in DbNets, par \in {TopInstance, "a"} : makeNet(name, par)
  \/ \E n \in DbNets : deleteNet(n)
  \/ \E inst \in EditInstances, n \in DbNets :
       \E port \in PortsOf(inst) : connect(inst, port, n)
  \/ \E pin \in ITerms \cup BTerms : disconnectPin(pin)
  \/ \E n \in nets \cup LiveModNets : DriversStart(n)
  \/ DriversFinish
  \/ \E n \in nets \cup LiveModNets : VisitStart(n)
  \/ VisitEnter
  \/ VisitBelow
  \/ VisitAbove
  \/ VisitReturn

\* A design with no nets yet: the instances are placed, nothing is wired.
\* The flat terminal u1.Z may already belong to the module net t1.
Init ==
  /\ InitIdle
  /\ nets = {}
  /\ iTermNet = [p \in ITerms |-> NULL]
  /\ bTermNet = [p \in BTerms |-> ABSENT]
  /\ bTermType = [p \in BTerms |-> NoType]
  /\ bTermModNet = [p \in BTerms |-> NULL]
  /\ modITermNet = [p \in ModITerms |-> ABSENT]
  /\ modBTermNet = [p \in ModBTerms |-> ABSENT]
  /\ \E m \in {NULL, "t1"} :
       /\ iTermModNet = [p \in ITerms |-> IF p = Pin("ITerm", "u1", "Z") THEN m
                                          ELSE NULL]
       /\ hierarchy_ = (m # NULL)

Spec == Init /\ [][Next]_vars

\* The driver pins connected to a net.
DriversOn(n) == {p \in ConnectedPins(n) : isDriver(p)}

\* C1 (as stated): for every net present, the driver set recorded in the
\* index is exactly the set of driver pins connected to the net, boundary
\* terminals included.
C1_DriverIndexConsistent ==
  vpc = "idle" =>
    \A n \in nets \cup ModNets :
      findKey(net_drvr_pin_map_, n) => net_drvr_pin_map_[n].drvrs = DriversOn(n)

\* The flat-net entries of the index gain only pins that are connected to
\* the net at that moment.
NewDriversAreConnected ==
  \A n \in DbNets :
    (net_drvr_pin_map_'[n].drvrs \ net_drvr_pin_map_[n].drvrs)
       \subseteq {p \in ITerms : iTermNet'[p] = n} \cup {p \in BTerms : bTermNet'[p] = n}

\* C6: a deleted net has no entry in the driver index (so a net created
\* again under that name starts without one), and an entry only ever gains
\* pins connected to the net, none left over from the deleted net.
C6_NoStaleEntry ==
  /\ [](\A n \in DbNets \ nets :
          ~findKey(net_drvr_pin_map_, n) /\ net_drvr_pin_map_[n].drvrs = {})
  /\ [][NewDriversAreConnected]_vars

\* C6 witness: n1 was deleted while its entry held a driver, was created
\* again and connected to, and its new entry holds no driver but the one
\* connected now.
C6_Witness ==
  /\ "n1" \in wasDeleted
  /\ "n1" \in nets
  /\ findKey(net_drvr_pin_map_, "n1")
  /\ bTermNet[Pin("BTerm", TopModule, "po")] = "n2"
  /\ iTermNet[Pin("ITerm", "u2", "A")] = "n1"
  /\ net_drvr_pin_map_["n1"].drvrs = {}

\* C9: a traversal started on a flat net visits exactly the instance
\* terminals and boundary terminals listed on that net, each once, never
\* nests a call, and marks no other net visited.
C9_FlatNetVisit ==
  /\ (vpc = "run" /\ vstart \in DbNets) => Len(vstack) <= 1
  /\ (vpc = "done" /\ vstart \in DbNets) =>
       /\ NoDuplicates(visitLog)
       /\ Range(visitLog) = {p \in ITerms : iTermNet[p] = vstart}
                            \cup {p \in BTerms : bTermNet[p] = vstart}
       /\ visited_nets = {vstart}
       /\ bodyLog = <<vstart>>

\* C9 witness: u1.Z and u2.A were connected to the new net n1 and the
\* traversal of n1 visited exactly these two.
C9_Witness ==
  /\ vpc = "done"
  /\ vstart = "n1"
  /\ {p \in ITerms : iTermNet[p] = "n1"} = {Pin("ITerm", "u1", "Z"), Pin("ITerm", "u2", "A")}
  /\ \A p \in BTerms : bTermNet[p] # "n1"
  /\ Range(visitLog) = {Pin("ITerm", "u1", "Z"), Pin("ITerm", "u2", "A")}

\* ------------------------------------------------------------------------
\* Creating instances and pins, and connecting at the top through both
\* overloads of connect.

\* Physical-library masters in the database and the timing cells a caller
\* may pass; NAND2 has no master.
Masters == {"INV", "BUF"}
LibertyCellNames == {"INV", "NAND2"}
NewInstNames == {"x1", "x2"}

\* dbNetwork::makeInstance with a name not yet in the block.  The mutant
\* does not test the parent.
makeInstance_anyParent(cell, name, parent_inst) ==
  /\ vpc = "idle"
  /\ \A i \in newInsts : i.name # name
  /\ LET master == IF cell \in Masters THEN cell ELSE NULL
         made == master # NULL
     IN /\ newInsts' = IF made THEN newInsts \cup {[name |-> name, master |-> master]}
                       ELSE newInsts
        /\ q' = [op |-> "makeInstance", cell |-> cell, name |-> name,
                 parent |-> parent_inst, res |-> IF made THEN name ELSE NULL,
                 fatal |-> FALSE]
  /\ UNCHANGED <<dbVars, drvrVars, visitVars, idq, typeVars, libVars, attrVars>>

makeInstance(cell, name, parent_inst) ==
  /\ vpc = "idle"
  /\ \A i \in newInsts : i.name # name
  /\ LET master == IF cell \in Masters THEN cell ELSE NULL
         made == parent_inst = TopInstance /\ master # NULL
     IN /\ newInsts' = IF made THEN newInsts \cup {[name |-> name, master |-> master]}
                       ELSE newInsts
        /\ q' = [op |-> "makeInstance", cell |-> cell, name |-> name,
                 parent |-> parent_inst, res |-> IF made THEN name ELSE NULL,
                 fatal |-> FALSE]
  /\ UNCHANGED <<dbVars, drvrVars, visitVars, idq, typeVars, libVars, attrVars>>

\* dbNetwork::makePin: nothing is made at the top; below the top the call is
\* forwarded to ConcreteNetwork::makePin, which does not touch the database.
\* The mutant makes and connects the boundary terminal at the top.
makePin_connectsAtTop(inst, port, net) ==
  /\ vpc = "idle"
  /\ net \in nets
  /\ IF inst = TopInstance
       THEN LET bterm == Pin("BTerm", TopModule, port)
            IN /\ bTermNet' = [bTermNet EXCEPT ![bterm] = net]
               /\ bTermType' = [bTermType EXCEPT ![bterm] =
                                  IF bTermNet[bterm] = ABSENT THEN NewBTermType ELSE @]
               /\ q' = [op |-> "makePin", inst |-> inst, port |-> port,
                        net |-> net, res |-> bterm]
       ELSE /\ UNCHANGED <<bTermNet, bTermType>>
            /\ q' = [op |-> "makePin", inst |-> inst, port |-> port, net |-> net,
                     res |-> Pin("ConcretePin", inst, port)]
  /\ UNCHANGED <<hierarchy_, nets, iTermNet, iTermModNet, bTermModNet,
                 modITermNet, modBTermNet, drvrVars, visitVars, idq,
                 iTermSigType, portDirection, newInsts, libVars, attrVars>>

makePin(inst, port, net) ==
  /\ vpc = "idle"
  /\ net \in nets
  /\ q' = [op |-> "makePin", inst |-> inst, port |-> port, net |-> net,
           res |-> IF inst # TopInstance THEN Pin("ConcretePin", inst, port)
                   ELSE NullPin]
  /\ UNCHANGED <<dbVars, drvrVars, visitVars, idq, extVars>>

Directions == HandledDirections \cup {"tristate"}

\* A block whose boundary terminal po is missing, or present with any
\* signal-type/IO-type pair, in which case the top cell's port has the
\* direction makeTopPort derived from the pair.
InitConnect ==
  /\ InitCalls
  /\ InitLibs
  /\ InitNames
  /\ hierarchy_ \in BOOLEAN
  /\ nets = DbNets
  /\ iTermNet = [p \in ITerms |-> NULL]
  /\ iTermModNet = [p \in ITerms |-> NULL]
  /\ iTermSigType = [p \in ITerms |-> "SIGNAL"]
  /\ netSigType = [n \in DbNets |-> "SIGNAL"]
  /\ bTermModNet = [p \in BTerms |-> NULL]
  /\ modITermNet = [p \in ModITerms |-> ABSENT]
  /\ modBTermNet = [p \in ModBTerms |-> ABSENT]
  /\ \E dir \in Directions, n \in {ABSENT, NULL} \cup DbNets,
        sig \in SigTypes, io \in IoTypes :
       /\ bTermNet = [p \in BTerms |-> n]
       /\ bTermType = [p \in BTerms |-> IF n = ABSENT THEN NoType
                                        ELSE [sig |-> sig, io |-> io]]
       /\ portDirection =
            [pn \in PortNames |->
               IF pn = "po"
                 THEN IF n = ABSENT THEN dir ELSE dbToSta_Direction(sig, io)
                 ELSE IF pn = "Z" THEN "output" ELSE "input"]

\* dbNetwork::deletePin: critical for an instance terminal; a boundary
\* terminal is destroyed, the database disconnecting it first
\* (disconnectPinBefore); a module terminal is left alone.  The mutant
\* disconnects the instance terminal instead of failing.
deletePin_disconnectsITerm(pin) ==
  /\ vpc = "idle"
  /\ LET d == staToDb_Pin(pin)
     IN IF d.iterm # NullPin
          THEN /\ iTermNet' = [iTermNet EXCEPT ![pin] = NULL]
               /\ net_drvr_pin_map_' = disconnectPinBefore(net_drvr_pin_map_, pin)
               /\ UNCHANGED <<bTermNet, bTermModNet, bTermType>>
               /\ q' = [op |-> "deletePin", pin |-> pin, fatal |-> FALSE]
        ELSE IF d.bterm # NullPin
          THEN /\ bTermNet[pin] # ABSENT
               /\ net_drvr_pin_map_' =
                    IF bTermNet[pin] # NULL
                      THEN disconnectPinBefore(net_drvr_pin_map_, pin)
                      ELSE net_drvr_pin_map_
               /\ bTermNet' = [bTermNet EXCEPT ![pin] = ABSENT]
               /\ bTermModNet' = [bTermModNet EXCEPT ![pin] = NULL]
               /\ bTermType' = [bTermType EXCEPT ![pin] = NoType]
               /\ UNCHANGED iTermNet
               /\ q' = [op |-> "deletePin", pin |-> pin, fatal |-> FALSE]
        ELSE /\ UNCHANGED <<iTermNet, bTermNet, bTermModNet, bTermType,
                            net_drvr_pin_map_>>
             /\ q' = [op |-> "deletePin", pin |-> pin, fatal |-> FALSE]
  /\ UNCHANGED <<hierarchy_, nets, iTermModNet, modITermNet, modBTermNet,
                 wasDeleted, visitVars, idq, iTermSigType, portDirection,
                 newInsts, libVars, attrVars>>

deletePin(pin) ==
  /\ vpc = "idle"
  /\ LET d == staToDb_Pin(pin)
     IN IF d.iterm # NullPin
          THEN /\ UNCHANGED <<iTermNet, bTermNet, bTermModNet, bTermType,
                              net_drvr_pin_map_>>
               /\ q' = [op |-> "deletePin", pin |-> pin, fatal |-> TRUE]
        ELSE IF d.bterm # NullPin
          THEN /\ bTermNet[pin] # ABSENT
               /\ net_drvr_pin_map_' =
                    IF bTermNet[pin] # NULL
                      THEN disconnectPinBefore(net_drvr_pin_map_, pin)
                      ELSE net_drvr_pin_map_
               /\ bTermNet' = [bTermNet EXCEPT ![pin] = ABSENT]
               /\ bTermModNet' = [bTermModNet EXCEPT ![pin] = NULL]
               /\ bTermType' = [bTermType EXCEPT ![pin] = NoType]
               /\ UNCHANGED iTermNet
               /\ q' = [op |-> "deletePin", pin |-> pin, fatal |-> FALSE]
        ELSE /\ UNCHANGED <<iTermNet, bTermNet, bTermModNet, bTermType,
                            net_drvr_pin_map_>>
             /\ q' = [op |-> "deletePin", pin |-> pin, fatal |-> FALSE]
  /\ UNCHANGED <<hierarchy_, nets, iTermModNet, modITermNet, modBTermNet,
                 wasDeleted, visitVars, idq, iTermSigType, portDirection,
                 newInsts, libVars, attrVars>>

\* dbNetwork::mergeInto and dbNetwork::mergedInto: critical, nothing else.
mergeInto(net, into_net) ==
  /\ vpc = "idle"
  /\ q' = [op |-> "mergeInto", net |-> net, into |-> into_net, fatal |-> TRUE]
  /\ UNCHANGED <<dbVars, drvrVars, visitVars, idq, extVars>>

mergedInto(net) ==
  /\ vpc = "idle"
  /\ q' = [op |-> "mergedInto", net |-> net, fatal |-> TRUE]
  /\ UNCHANGED <<dbVars, drvrVars, visitVars, idq, extVars>>

\* dbNetwork::deleteInstance.  The handle is the top instance, null, a live
\* module instance, or a flat instance made by makeInstance (which has no
\* connected terminal).  staToDb gives null for both natives on the top
\* instance and on null, and the else branch then hands the null module
\* instance to dbModInst::destroy, which dereferences it: the call may crash
\* or return.
deleteInstance(inst) ==
  /\ vpc = "idle"
  /\ inst \notin destroyed
  /\ inst \in NewInstNames => \E i \in newInsts : i.name = inst
  /\ LET db_inst == IF \E i \in newInsts : i.name = inst THEN inst ELSE NULL
         mod_inst == IF inst \in ModInsts THEN inst ELSE NULL
     IN IF db_inst # NULL
          THEN /\ newInsts' = {i \in newInsts : i.name # db_inst}
               /\ destroyed' = destroyed
               /\ q' = [op |-> "deleteInstance", inst |-> inst,
                        destructor |-> "dbInst::destroy", object |-> db_inst,
                        fatal |-> FALSE]
          ELSE /\ newInsts' = newInsts
               /\ destroyed' = IF mod_inst # NULL THEN destroyed \cup {mod_inst}
                                ELSE destroyed
               /\ \E crashed \in IF mod_inst = NULL THEN BOOLEAN ELSE {FALSE} :
                    q' = [op |-> "deleteInstance", inst |-> inst,
                          destructor |-> "dbModInst::destroy", object |-> mod_inst,
                          fatal |-> crashed]
  /\ UNCHANGED <<dbVars, drvrVars, visitVars, idq, typeVars, libVars,
                 instName, netSigType, iter>>

NextConnect ==
  \/ \E inst \in EditInstances, n \in DbNets :
       \E port \in PortsOf(inst) : connect(inst, port, n)
  \/ \E inst \in EditInstances, n \in DbNets :
       \E port \in PortsOf(inst) : connectPort(inst, port, n)
  \/ \E cell \in LibertyCellNames, name \in NewInstNames,
        par \in {TopInstance, "a", "u1"} : makeInstance(cell, name, par)
  \/ \E inst \in {TopInstance, "u1"}, n \in DbNets :
       \E port \in PortsOf(inst) : makePin(inst, port, n)
  \/ \E pin \in {Pin("ITerm", "u1", "Z"), Pin("BTerm", TopModule, "po"),
                 Pin("ModITerm", "a", "p")} : deletePin(pin)
  \/ \E n1, n2 \in DbNets : n1 # n2 /\ mergeInto(n1, n2)
  \/ \E n \in DbNets : mergedInto(n)
  \/ \E inst \in NewInstNames \cup {TopInstance, NULL, "b"} : deleteInstance(inst)

SpecConnect == InitConnect /\ [][NextConnect]_vars

\* C12 (as stated): a connect at the top through either overload returns the
\* boundary terminal named like the port, connected to the net, with the
\* signal-type/IO-type pair derived from the port's direction, whether the
\* terminal was created or reused.
C12_ConnectSetsType ==
  (q.op = "connect" /\ q.inst = TopInstance
     /\ portDirection[q.port] \in HandledDirections) =>
    /\ q.res = Pin("BTerm", TopModule, q.port)
    /\ bTermNet[q.res] = q.net
    /\ bTermType[q.res] = staToDb_Direction(portDirection[q.port])

\* C13: makeInstance returns an instance only for the top parent and a cell
\* with a master, and then the instance is in the block; otherwise it returns
\* empty without a fatal error and the block's instances are unchanged.
C13_MakeInstance ==
  /\ [](q.op = "makeInstance" =>
          /\ ~q.fatal
          /\ q.res # NULL <=> (q.parent = TopInstance /\ q.cell \in Masters)
          /\ q.res # NULL =>
               [name |-> q.res, master |-> q.cell] \in newInsts)
  /\ [][(q'.op = "makeInstance" /\ q'.res = NULL) => newInsts' = newInsts]_vars

\* C13 witness: makeInstance failed under a module instance for a cell that
\* has a master, after an instance was made at the top.
C13_Witness ==
  /\ q.op = "makeInstance"
  /\ q.parent = "a"
  /\ q.cell = "INV"
  /\ q.res = NULL
  /\ newInsts = {[name |-> "x1", master |-> "INV"]}

\* C14: makePin at the top returns empty and changes nothing in the
\* database: no terminal is made or connected.
C14_MakePinAtTop ==
  /\ []((q.op = "makePin" /\ q.inst = TopInstance) => q.res = NullPin)
  /\ [][(q'.op = "makePin" /\ q'.inst = TopInstance)
          => UNCHANGED <<dbVars, bTermType, newInsts>>]_vars

\* C14 witness: makePin was called at the top for port po, which has no
\* boundary terminal, and it still has none.
C14_Witness ==
  /\ q.op = "makePin"
  /\ q.inst = TopInstance
  /\ q.port = "po"
  /\ bTermNet[Pin("BTerm", TopModule, "po")] = ABSENT
  /\ q.res = NullPin

\* ------------------------------------------------------------------------
\* Classification of a handle by the native type recorded in the object
\* behind it, at each dispatch site.  An outcome names the alternative that
\* was set ("none" when all are left null), whether a warning was logged
\* and whether the call ended in logger_->critical or logger_->error.
Outcome(alt, warned, fatal) == [alt |-> alt, warned |-> warned, fatal |-> fatal]

\* Native types of the database that are no entity kind of the network.
UnknownTypes == {"dbMasterObj", "dbLibObj"}
NativeTypes == DbObjectTypes \cup UnknownTypes

\* staToDb(const Instance*, dbInst*&, dbModInst*&) for a handle other than
\* null and the top instance.
staToDb_InstanceType(type) ==
  IF type = "dbInstObj" THEN Outcome("dbInst", FALSE, FALSE)
  ELSE IF type = "dbModInstObj" THEN Outcome("dbModInst", FALSE, FALSE)
  ELSE Outcome("none", FALSE, TRUE)

\* staToDb(const Net*, dbNet*&, dbModNet*&) for a non-null handle.
staToDb_NetType(type) ==
  IF type = "dbNetObj" THEN Outcome("dbNet", FALSE, FALSE)
  ELSE IF type = "dbModNetObj" THEN Outcome("dbModNet", FALSE, FALSE)
  ELSE Outcome("none", FALSE, FALSE)

\* staToDb(const Pin*, ...) for a non-null handle.
staToDb_PinType(type) ==
  IF type = "dbITermObj" THEN Outcome("dbITerm", FALSE, FALSE)
  ELSE IF type = "dbBTermObj" THEN Outcome("dbBTerm", FALSE, FALSE)
  ELSE IF type = "dbModBTermObj" THEN Outcome("dbModBTerm", FALSE, FALSE)
  ELSE IF type = "dbModITermObj" THEN Outcome("dbModITerm", FALSE, FALSE)
  ELSE Outcome("none", TRUE, FALSE)

\* staToDb(const Term*, ...) for a non-null handle.
staToDb_TermType(type) ==
  IF type = "dbITermObj" THEN Outcome("dbITerm", FALSE, FALSE)
  ELSE IF type = "dbBTermObj" THEN Outcome("dbBTerm", FALSE, FALSE)
  ELSE IF type = "dbModBTermObj" THEN Outcome("dbModBTerm", FALSE, FALSE)
  ELSE IF type = "dbModITermObj" THEN Outcome("dbModITerm", FALSE, FALSE)
  ELSE Outcome("none", FALSE, FALSE)

\* Identifier generation as a dispatch site: the switch of getDbNwkObjectId.
getDbNwkObjectId_Type(type, db_id) ==
  IF getDbNwkObjectId(type, db_id) = FATAL THEN Outcome("none", FALSE, TRUE)
  ELSE Outcome(type, FALSE, FALSE)

DispatchSites == {"instance", "pin", "net", "term", "id"}

Dispatch(site, type, db_id) ==
  CASE site = "instance" -> staToDb_InstanceType(type)
    [] site = "pin" -> staToDb_PinType(type)
    [] site = "net" -> staToDb_NetType(type)
    [] site = "term" -> staToDb_TermType(type)
    [] site = "id" -> getDbNwkObjectId_Type(type, db_id)

\* One handle is classified at one site.
Classify(site, type, db_id) ==
  /\ idq' = [op |-> "classify", site |-> site, typ |-> type, num |-> db_id,
             out |-> Dispatch(site, type, db_id)]
  /\ UNCHANGED <<dbVars, drvrVars, visitVars, q, extVars>>

SmallIds == {1, 2, 3}

NextClassify ==
  \E site \in DispatchSites, type \in NativeTypes, n \in SmallIds :
    Classify(site, type, n)

SpecClassify == InitId /\ [][NextClassify]_vars

\* C15 (as stated): a handle whose recorded native type is none of the
\* recognized kinds ends in a fatal error at every dispatch site.
C15_UnknownTypeIsFatal ==
  (idq.op = "classify" /\ idq.typ \in UnknownTypes) => idq.out.fatal

\* ------------------------------------------------------------------------
\* Libraries.  The database has two physical libraries; three timing
\* libraries can be read.  L2's INV lacks port Z, and L3 has a cell named
\* like module A.
PhysLibSeq == <<"P1", "P2">>
MastersOf(lib) == IF lib = "P1" THEN {"INV"} ELSE {"BUF"}
MTerms(master) ==
  IF master = "INV" THEN {"A", "Z", "VDD", "VNW"} ELSE {"A", "B", "Z", "VDD"}
\* dbMTerm::getSigType / getIoType: VDD is a power terminal; VNW is a well
\* terminal the physical library declares as a signal.
MTermSigType(port) == IF port = "VDD" THEN "POWER" ELSE "SIGNAL"
MTermIoType(port) == IF port = "Z" THEN "OUTPUT" ELSE "INPUT"
LibertyLibs == {"L1", "L2", "L3"}
LibertyCellsOf(lib) ==
  CASE lib = "L1" -> {"INV"}
    [] lib = "L2" -> {"INV", "BUF"}
    [] lib = "L3" -> {"BUF", "A"}
LibertyPortsOf(lib, cell) ==
  IF lib = "L2" /\ cell = "INV" THEN {"A"}
  ELSE IF cell = "A" THEN {"p"}
  ELSE IF cell = "BUF" THEN {"A", "B", "Z"}
  ELSE {"A", "Z"}
\* The power/ground pins of a timing cell: L2's INV declares none.
LibertyPgPortsOf(lib, cell) ==
  IF cell = "A" \/ (cell = "INV" /\ lib = "L2") THEN {}
  ELSE IF cell = "INV" THEN {"VDD", "VNW"}
  ELSE {"VDD"}

\* libertyLibraryIterator: the timing libraries among library_seq_, in
\* load order.
libertyLibraryIterator ==
  LET libs == SelectSeq(library_seq_, LAMBDA l : l.liberty)
  IN [i \in 1..Len(libs) |-> libs[i].name]

\* Network::findLibertyCell(name): the cell of that name in the first
\* timing library that has one; a timing cell is told by its library.
findLibertyCell(cell_name) ==
  LET libs == libertyLibraryIterator
      has == {i \in 1..Len(libs) : cell_name \in LibertyCellsOf(libs[i])}
  IN IF has = {} THEN NULL
     ELSE libs[CHOOSE i \in has : \A j \in has : i <= j]

\* LibertyLibrary::findLibertyCell / LibertyCell::findLibertyPort
findLibertyCellIn(lib, cell_name) ==
  IF cell_name \in LibertyCellsOf(lib) THEN lib ELSE NULL
findLibertyPort(lib_cell, cell_name, port_name) ==
  IF lib_cell # NULL /\ port_name \in LibertyPortsOf(lib_cell, cell_name)
    THEN lib_cell ELSE NULL

\* LibertyCell::findPgPort and PortDirection::isPowerGround
findPgPort(lib_cell, cell_name, port_name) ==
  lib_cell # NULL /\ port_name \in LibertyPgPortsOf(lib_cell, cell_name)
isPowerGround(dir) == dir \in {"power", "ground"}

\* A warning of the logger: its number, and the cell and pin it names.
Warning(msg_id, cell_name, port_name) ==
  [id |-> msg_id, cell |-> cell_name, port |-> port_name]

\* A ConcreteCell with its libertyCell() and the libertyPort() of its ports.
ConcreteCell(lib_cell, port_links) == [libertyCell |-> lib_cell, ports |-> port_links]
ConcreteLibrary(name, is_liberty, cells) ==
  [name |-> name, liberty |-> is_liberty, cells |-> cells]

\* dbNetwork::makeCell(Library*, dbMaster*): the cell is linked to the
\* default timing cell of its name, and each port to that cell's port of the
\* same name.  The back pointers written into the timing cells are left out.
makeCell(master) ==
  LET lib_cell == findLibertyCell(master)
  IN ConcreteCell(lib_cell,
                  [port \in MTerms(master) |-> findLibertyPort(lib_cell, master, port)])

\* The warnings of dbNetwork::makeCell(Library*, dbMaster*): warning 2001 for
\* a terminal of a linked master that has no timing port, is not a
\* power/ground terminal and is no power/ground pin of the timing cell.  The
\* mutant leaves the direction test out.
makeCellWarnings_alsoPowerGround(master) ==
  LET lib_cell == findLibertyCell(master)
  IN {Warning(2001, master, port) : port \in
        {pt \in MTerms(master) :
           /\ lib_cell # NULL
           /\ findLibertyPort(lib_cell, master, pt) = NULL
           /\ ~findPgPort(lib_cell, master, pt)}}

makeCellWarnings(master) ==
  LET lib_cell == findLibertyCell(master)
  IN {Warning(2001, master, port) : port \in
        {pt \in MTerms(master) :
           /\ lib_cell # NULL
           /\ findLibertyPort(lib_cell, master, pt) = NULL
           /\ ~isPowerGround(dbToSta_Direction(MTermSigType(pt), MTermIoType(pt)))
           /\ ~findPgPort(lib_cell, master, pt)}}

\* dbNetwork::makeLibrary(dbLib*)
makeLibrary(lib) ==
  ConcreteLibrary(lib, FALSE, [master \in MastersOf(lib) |-> makeCell(master)])

\* dbNetwork::makeVerilogCell for every module instance: the cells of the
\* "verilog" library are made by ConcreteNetwork::makeCell without a link.
makeVerilogLibrary ==
  ConcreteLibrary("verilog", FALSE,
                  [module \in {ModInstMaster[i] : i \in ModInsts} |->
                     ConcreteCell(NULL, [port \in {"p"} |-> NULL])])

\* The cell loop of readLibertyAfter on one cell.  The mutant links every
\* cell the new library has, matched or not.
relinkCell_clobbers(ccell, cell_name, lib) ==
  LET lcell == findLibertyCellIn(lib, cell_name)
  IN IF lcell # NULL
       THEN ConcreteCell(lcell,
              [port \in DOMAIN ccell.ports |->
                 LET lport == findLibertyPort(lcell, cell_name, port)
                 IN IF lport # NULL THEN lport ELSE ccell.ports[port]])
       ELSE ccell

relinkCell(ccell, cell_name, lib) ==
  LET lcell == findLibertyCellIn(lib, cell_name)
  IN IF ccell.libertyCell = NULL /\ lcell # NULL
       THEN ConcreteCell(lcell,
              [port \in DOMAIN ccell.ports |->
                 LET lport == findLibertyPort(lcell, cell_name, port)
                 IN IF lport # NULL THEN lport ELSE ccell.ports[port]])
       ELSE ccell

\* The warnings of the cell loop of readLibertyAfter on one cell: warning
\* 2002 under the condition of makeCell's, on the direction the port was
\* given when its cell was made.
relinkWarnings(ccell, cell_name, lib) ==
  LET lcell == findLibertyCellIn(lib, cell_name)
  IN {Warning(2002, cell_name, port) : port \in
        {pt \in DOMAIN ccell.ports :
           /\ ccell.libertyCell = NULL
           /\ lcell # NULL
           /\ findLibertyPort(lcell, cell_name, pt) = NULL
           /\ ~isPowerGround(dbToSta_Direction(MTermSigType(pt), MTermIoType(pt)))
           /\ ~findPgPort(lcell, cell_name, pt)}}

\* The orders in which a range-for over observers_ can meet the observers:
\* observers_ is a set keyed by the observer's address.
Orderings(S) ==
  {s \in [1..Cardinality(S) -> S] : \A i, j \in 1..Cardinality(S) : s[i] = s[j] => i = j}

Notification(observer, event) == [observer |-> observer, event |-> event]
LoadResult(op, lib) == [op |-> op, lib |-> lib]

LoadedNames == {library_seq_[i].name : i \in 1..Len(library_seq_)}

\* dbNetwork::readLefAfter
readLefAfter(lib) ==
  /\ lib \notin LoadedNames
  /\ library_seq_' = Append(library_seq_, makeLibrary(lib))
  /\ warnings' = UNION {makeCellWarnings(master) : master \in MastersOf(lib)}
  /\ notified' = <<>>
  /\ q' = LoadResult("readLefAfter", lib)
  /\ UNCHANGED <<dbVars, drvrVars, visitVars, idq, typeVars, newInsts,
                 observers_, regSeq, block_, top_cell_, attrVars>>

\* Blocks a design load can be given: the chip's block, which is the design
\* of this model, and another block with one boundary terminal.
Blocks == {TopModule, "ALT"}
BlockBTermNames(block) ==
  IF block = TopModule THEN {p.n : p \in {b \in BTerms : bTermNet[b] # ABSENT}}
  ELSE {"pa"}

\* The library makeTopCell makes: named like the design, holding the top
\* cell of that name with a port per boundary terminal (makeTopPort).
TopLibrary(block) ==
  ConcreteLibrary(block, FALSE,
                  [c \in {block} |->
                     ConcreteCell(NULL, [port \in BlockBTermNames(block) |-> NULL])])

\* ConcreteNetwork::deleteLibrary of the library at position i.
deleteLibrary(libs, i) ==
  [j \in 1..(Len(libs) - 1) |-> IF j < i THEN libs[j] ELSE libs[j + 1]]

\* dbNetwork::makeTopCell on the libraries libs, where the top cell's library
\* is at position top (0: no top cell yet): the previous top library is
\* deleted, the new one is appended.
makeTopCell(libs, top, block) ==
  Append(IF top # 0 THEN deleteLibrary(libs, top) ELSE libs, TopLibrary(block))

\* Libraries are never loaded without end.
MaxLibs == 8

\* dbNetwork::setBlock: readDbNetlistAfter, that is makeTopCell (the
\* constant nets and the corner check are not part of the model).
setBlock(block) ==
  /\ block_' = block
  /\ library_seq_' = makeTopCell(library_seq_, top_cell_, block)
  /\ top_cell_' = Len(library_seq_')
  /\ warnings' = {}
  /\ notified' = <<>>
  /\ q' = LoadResult("setBlock", block)
  /\ UNCHANGED <<dbVars, drvrVars, visitVars, idq, typeVars, newInsts,
                 observers_, regSeq, attrVars>>

\* dbNetwork::readDefAfter: readDbNetlistAfter on the block read.
readDefAfter(block) ==
  /\ block_' = block
  /\ library_seq_' = makeTopCell(library_seq_, top_cell_, block)
  /\ top_cell_' = Len(library_seq_')
  /\ warnings' = {}
  /\ notified' = <<>>
  /\ q' = LoadResult("readDefAfter", block)
  /\ UNCHANGED <<dbVars, drvrVars, visitVars, idq, typeVars, newInsts,
                 observers_, regSeq, attrVars>>

\* dbNetwork::readDbAfter for a database with a chip: a library per dbLib,
\* readDbNetlistAfter on the chip's block, the verilog library when
\* hierarchy is enabled, then postReadDb on every observer.
readDbAfter ==
  /\ Len(library_seq_) + Len(PhysLibSeq) + 2 <= MaxLibs
  /\ block_' = TopModule
  /\ LET made == library_seq_ \o [i \in 1..Len(PhysLibSeq) |-> makeLibrary(PhysLibSeq[i])]
         topped == makeTopCell(made, top_cell_, TopModule)
     IN /\ top_cell_' = Len(topped)
        /\ library_seq_' =
             topped \o (IF hierarchy_ THEN <<makeVerilogLibrary>> ELSE <<>>)
  /\ warnings' = UNION {makeCellWarnings(master) :
                        master \in UNION {MastersOf(PhysLibSeq[i]) : i \in 1..Len(PhysLibSeq)}}
  /\ \E order \in Orderings(observers_) :
       notified' = [i \in 1..Len(order) |-> Notification(order[i], "postReadDb")]
  /\ q' = LoadResult("readDbAfter", NULL)
  /\ UNCHANGED <<dbVars, drvrVars, visitVars, idq, typeVars, newInsts,
                 observers_, regSeq, attrVars>>

\* dbNetwork::readLibertyAfter(lib), called when the reader has added lib to
\* the network's libraries: unmatched cells of the other libraries are
\* linked to lib's cells, then postReadLiberty on every observer.
readLibertyAfter(lib) ==
  /\ lib \notin LoadedNames
  /\ library_seq_' =
       [i \in 1..Len(library_seq_) |->
          LET clib == library_seq_[i]
          IN IF ~clib.liberty
               THEN [clib EXCEPT !.cells =
                       [c \in DOMAIN clib.cells |-> relinkCell(clib.cells[c], c, lib)]]
               ELSE clib]
         \o <<ConcreteLibrary(lib, TRUE, <<>>)>>
  /\ warnings' =
       UNION {UNION {relinkWarnings(library_seq_[i].cells[c], c, lib) :
                       c \in DOMAIN library_seq_[i].cells} :
                i \in {j \in 1..Len(library_seq_) : ~library_seq_[j].liberty}}
  /\ \E order \in Orderings(observers_) :
       notified' = [i \in 1..Len(order) |-> Notification(order[i], "postReadLiberty")]
  /\ q' = LoadResult("readLibertyAfter", lib)
  /\ UNCHANGED <<dbVars, drvrVars, visitVars, idq, typeVars, newInsts,
                 observers_, regSeq, block_, top_cell_, attrVars>>

Observers == {"o1", "o2"}

\* dbNetwork::addObserver
addObserver(observer) ==
  /\ observer \notin observers_
  /\ observers_' = observers_ \cup {observer}
  /\ regSeq' = Append(regSeq, observer)
  /\ UNCHANGED <<dbVars, drvrVars, visitVars, q, idq, typeVars, newInsts,
                 library_seq_, notified, block_, top_cell_, warnings, attrVars>>

\* dbNetwork::removeObserver
removeObserver(observer) ==
  /\ observer \in observers_
  /\ observers_' = observers_ \ {observer}
  /\ regSeq' = SelectSeq(regSeq, LAMBDA o : o # observer)
  /\ UNCHANGED <<dbVars, drvrVars, visitVars, q, idq, typeVars, newInsts,
                 library_seq_, notified, block_, top_cell_, warnings, attrVars>>

NextLib ==
  \/ \E i \in 1..Len(PhysLibSeq) : readLefAfter(PhysLibSeq[i])
  \/ \E block \in Blocks : setBlock(block)
  \/ \E block \in Blocks : readDefAfter(block)
  \/ readDbAfter
  \/ \E lib \in LibertyLibs : readLibertyAfter(lib)
  \/ \E o \in Observers : addObserver(o)
  \/ \E o \in Observers : removeObserver(o)

SpecLib == InitId /\ [][NextLib]_vars

\* The libraries other than the top cell's, whose positions among
\* themselves never change.
LoadedLibs == SelectSeq(library_seq_, LAMBDA l : l.name \notin Blocks)

\* The physical cells made so far, as <<index of the library, cell name>>.
PhysicalCells ==
  {ic \in (1..Len(LoadedLibs)) \X Masters :
     /\ LoadedLibs[ic[1]].name \in Range(PhysLibSeq)
     /\ ic[2] \in DOMAIN LoadedLibs[ic[1]].cells}

\* The timing libraries loaded so far that have a cell of the name, as
\* positions in LoadedLibs.
LibertyHaving(cell_name) ==
  {i \in 1..Len(LoadedLibs) :
     LoadedLibs[i].liberty /\ cell_name \in LibertyCellsOf(LoadedLibs[i].name)}

\* C16: a physical cell is cross-referenced to the earliest-loaded timing
\* library with a cell of its name, its ports to that cell's ports, and no
\* step changes the cross-references of a cell that has a match.
C16_FirstLibertyWins ==
  /\ [](\A ic \in PhysicalCells :
          LET ccell == LoadedLibs[ic[1]].cells[ic[2]]
              having == LibertyHaving(ic[2])
          IN /\ having = {} => ccell.libertyCell = NULL
             /\ having # {} =>
                  ccell.libertyCell =
                    LoadedLibs[CHOOSE i \in having : \A j \in having : i <= j].name
             /\ \A port \in DOMAIN ccell.ports :
                  ccell.ports[port] =
                    findLibertyPort(ccell.libertyCell, ic[2], port))
  /\ [][\A ic \in PhysicalCells :
          LoadedLibs[ic[1]].cells[ic[2]].libertyCell # NULL =>
            LoadedLibs'[ic[1]].cells[ic[2]] = LoadedLibs[ic[1]].cells[ic[2]]]_vars

\* C16 witness: INV was linked to L1, and L2, which also has an INV, was
\* read afterwards.
C16_Witness ==
  /\ q = LoadResult("readLibertyAfter", "L2")
  /\ \E ic \in PhysicalCells :
       /\ ic[2] = "INV"
       /\ LoadedLibs[ic[1]].cells["INV"].libertyCell = "L1"
       /\ LoadedLibs[ic[1]].cells["INV"].ports["Z"] = "L1"

LoadOps == {"readLefAfter", "readDefAfter", "readDbAfter", "readLibertyAfter"}

\* C17 (as stated): every load that completes has notified every registered
\* observer exactly once, in registration order, by the time it returns.
C17_ObserversNotified ==
  [][(regSeq' = regSeq /\ q'.op \in LoadOps) =>
       [i \in 1..Len(notified') |-> notified'[i].observer] = regSeq']_vars

\* ------------------------------------------------------------------------
\* Looking up children by name and telling leaves from module instances.

\* dbModInst::getName: the local name of a module instance.
ModInstName == [i \in ModInsts |-> Name(i)]

\* dbModInst::getHierarchicalName: the names from the top down, joined by
\* the divider.
RECURSIVE getHierarchicalName(_)
getHierarchicalName(mod_inst) ==
  LET up == ModuleModInst[ModInstParent[mod_inst]]
  IN IF up = NULL THEN ModInstName[mod_inst]
     ELSE Join(getHierarchicalName(up), ModInstName[mod_inst])

\* dbBlock::findInst: the flat instance of that name.
findInst(name) ==
  IF \E i \in Insts : instName[i] = name
    THEN CHOOSE i \in Insts : instName[i] = name
    ELSE NULL

\* dbModule::findModInst: the module instance of that local name in module.
findModInst(module, name) ==
  IF \E i \in ModInsts : ModInstParent[i] = module /\ ModInstName[i] = name
    THEN CHOOSE i \in ModInsts : ModInstParent[i] = module /\ ModInstName[i] = name
    ELSE NULL

\* dbNetwork::findChild
findChild(parent_inst, name) ==
  IF parent_inst = TopInstance
    THEN LET inst == findInst(name)
         IN IF inst = NULL THEN findModInst(TopModule, name) ELSE inst
    ELSE LET mod_inst == staToDb_Instance(parent_inst).mod_inst
         IN IF mod_inst = NULL THEN NULL
            ELSE LET child_inst == findModInst(ModInstMaster[mod_inst], name)
                 IN IF child_inst # NULL THEN child_inst
                    ELSE findInst(Join(getHierarchicalName(mod_inst), name))

\* dbInst::getMaster, by the master's name.
InstMaster == [i \in Insts |-> IF i \in {"u1", "u2"} THEN "INV" ELSE "BUF"]

\* A Cell handle: the dbMaster or dbModule behind it.
Cell(kind, name) == [kind |-> kind, name |-> name]
TopCell == Cell("top", TopModule)
NullCell == Cell("null", NULL)

\* dbNetwork::cell(const Instance*)
cell(instance) ==
  IF instance = TopInstance THEN TopCell
  ELSE LET d == staToDb_Instance(instance)
       IN IF d.db_inst # NULL THEN Cell("dbMaster", InstMaster[d.db_inst])
          ELSE IF d.mod_inst # NULL THEN Cell("dbModule", ModInstMaster[d.mod_inst])
          ELSE NullCell

\* dbBlock::findModule
findModule(name) == name \in Modules

\* staToDb(const Cell*, dbMaster*&, dbModule*&): the cell is told by its
\* name, a timing cell of the name first, then a module of the name.
staToDb_Cell(c) ==
  IF findLibertyCell(c.name) # NULL THEN [master |-> c, module |-> NullCell]
  ELSE IF findModule(c.name) THEN [master |-> NullCell, module |-> c]
  ELSE [master |-> c, module |-> NullCell]

\* dbNetwork::isLeaf
isLeaf(instance) ==
  IF instance = TopInstance THEN FALSE
  ELSE IF hierarchy_ THEN staToDb_Cell(cell(instance)).module = NullCell
  ELSE instance # TopInstance

ChildNames == {Name("a"), Name("b"), Name("u1"), Name("g2"), Name("x")}

FindChild(parent_inst, name) ==
  /\ q' = [op |-> "findChild", parent |-> parent_inst, name |-> name,
           res |-> findChild(parent_inst, name)]
  /\ UNCHANGED <<dbVars, drvrVars, visitVars, idq, extVars>>

IsLeaf(instance) ==
  /\ q' = [op |-> "isLeaf", inst |-> instance, res |-> isLeaf(instance)]
  /\ UNCHANGED <<dbVars, drvrVars, visitVars, idq, extVars>>

ChildIterator(instance) ==
  /\ q' = [op |-> "childIterator", inst |-> instance, res |-> childIterator(instance)]
  /\ UNCHANGED <<dbVars, drvrVars, visitVars, idq, extVars>>

\* The instances the network hands out: module instances only when
\* hierarchy is enabled.
Instances == {TopInstance} \cup Insts \cup (IF hierarchy_ THEN ModInsts ELSE {})

\* A loaded block in which a flat instance at the top may be named like
\* module instance a, and one inside a may have the path name a/b of module
\* instance b.
InitInst ==
  /\ InitFlat
  /\ InitCalls
  /\ InitPorts
  /\ InitLibs
  /\ iTermSigType = [p \in ITerms |-> "SIGNAL"]
  /\ netSigType = [n \in DbNets |-> "SIGNAL"]
  /\ hierarchy_ \in BOOLEAN
  /\ iTermModNet = [p \in ITerms |-> NULL]
  /\ bTermModNet = [p \in BTerms |-> NULL]
  /\ modITermNet = [p \in ModITerms |-> NULL]
  /\ modBTermNet = [p \in ModBTerms |-> NULL]
  /\ \E n1 \in {Name("u1"), Name("a")},
        n2 \in {Join(Name("a"), Name("g2")), Join(Name("a"), Name("b"))} :
       instName = [InstPathName EXCEPT !["u1"] = n1, !["g2"] = n2]

NextInst ==
  \/ \E lib \in LibertyLibs : readLibertyAfter(lib)
  \/ \E par \in Instances, name \in ChildNames : FindChild(par, name)
  \/ \E inst \in Instances : IsLeaf(inst)
  \/ \E inst \in Instances : ChildIterator(inst)

SpecInst == InitInst /\ [][NextInst]_vars

\* C18 (as stated): in a hierarchical design findChild under the top or a
\* module instance returns the module sub-instance of that name when there
\* is one, else the flat instance whose name is the parent's path joined to
\* the name, else nothing.
C18_FindChildPrefersModule ==
  (q.op = "findChild" /\ hierarchy_ /\ q.parent \in {TopInstance} \cup ModInsts) =>
    LET module == IF q.parent = TopInstance THEN TopModule
                  ELSE ModInstMaster[q.parent]
        path == IF q.parent = TopInstance THEN q.name
                ELSE Join(getHierarchicalName(q.parent), q.name)
        subs == {i \in ModInsts : ModInstParent[i] = module /\ ModInstName[i] = q.name}
        flats == {i \in Insts : instName[i] = path}
    IN /\ subs # {} => q.res \in subs
       /\ (subs = {} /\ flats # {}) => q.res \in flats
       /\ (subs = {} /\ flats = {}) => q.res = NULL

\* C20 (as stated): isLeaf is true exactly for the instances of physical
\* cells (flat instances), false for module instances and the top, whatever
\* the timing libraries hold and with hierarchy enabled or disabled.
C20_IsLeaf ==
  q.op = "isLeaf" => (q.res <=> q.inst \in Insts)

\* ------------------------------------------------------------------------
\* Pin enumeration and supply pins.

\* dbSigType::isSupply
isSupply(sig_type) == sig_type \in {"POWER", "GROUND"}

\* dbInst::getITerms / dbBlock::getBTerms, in database order.
dbInst_getITerms(inst) == SelectSeq(ITermSeq, LAMBDA p : p.o = inst)
dbBlock_getBTerms == SelectSeq(BTermSeq, LAMBDA p : bTermNet[p] # ABSENT)

\* DbInstancePinIterator: the pins next() yields until hasNext() is false.
\* At the top every boundary terminal; under a flat instance its instance
\* terminals that are no supply; the constructor tests the member mod_inst_,
\* which it has just set to null, so a module instance yields nothing.
instancePinIterator(inst) ==
  IF inst = TopInstance THEN dbBlock_getBTerms
  ELSE LET d == staToDb_Instance(inst)
       IN IF d.db_inst # NULL
            THEN SelectSeq(dbInst_getITerms(d.db_inst),
                           LAMBDA p : ~isSupply(iTermSigType[p]))
            ELSE <<>>

\* DbNetPinIterator: instance terminals of the net that are no supply, then
\* for a module net its module instance terminals when hierarchy is enabled.
netPinIterator(net) ==
  LET d == staToDb_Net(net)
  IN IF d.dnet # NULL
       THEN SelectSeq(dbNet_getITerms(d.dnet), LAMBDA p : ~isSupply(iTermSigType[p]))
       ELSE IF d.modnet # NULL
         THEN SelectSeq(dbModNet_getITerms(d.modnet),
                        LAMBDA p : ~isSupply(iTermSigType[p]))
              \o (IF hierarchy_ THEN dbModNet_getModITerms(d.modnet) ELSE <<>>)
         ELSE <<>>

\* dbNetwork::isPower / isGround of a flat net
isPower(net) == netSigType[net] = "POWER"
isGround(net) == netSigType[net] = "GROUND"

InstancePins(inst) ==
  /\ vpc = "idle"
  /\ q' = [op |-> "pins", of |-> inst, res |-> instancePinIterator(inst)]
  /\ UNCHANGED <<dbVars, drvrVars, visitVars, idq, extVars>>

NetPins(net) ==
  /\ vpc = "idle"
  /\ q' = [op |-> "pins", of |-> net, res |-> netPinIterator(net)]
  /\ UNCHANGED <<dbVars, drvrVars, visitVars, idq, extVars>>

NetSupply(net) ==
  /\ vpc = "idle"
  /\ q' = [op |-> "supply", of |-> net, power |-> isPower(net),
           ground |-> isGround(net)]
  /\ UNCHANGED <<dbVars, drvrVars, visitVars, idq, extVars>>

\* A hierarchical block: u1.Z, u2.A and g1.A on n1, g2.Z and po on n2; u1.Z
\* reaches g1.A through module nets t1, a1 and b1.  The terminals of the
\* top-level gates, g1, po and net n1 may be supply.
InitPins ==
  /\ InitCalls
  /\ InitLibs
  /\ InitNames
  /\ newInsts = {}
  /\ hierarchy_ \in BOOLEAN
  /\ nets = DbNets
  /\ iTermNet = [p \in ITerms |-> IF p.o \in {"u1", "u2", "g1"} THEN "n1" ELSE "n2"]
  /\ bTermNet = [p \in BTerms |-> "n2"]
  /\ iTermModNet = [p \in ITerms |-> CASE p.o = "u1" -> "t1"
                                       [] p.o = "g1" -> "b1"
                                       [] OTHER -> NULL]
  /\ bTermModNet = [p \in BTerms |-> NULL]
  /\ modITermNet = [p \in ModITerms |-> CASE p = Pin("ModITerm", "a", "p") -> "t1"
                                          [] p = Pin("ModITerm", "b", "p") -> "a1"
                                          [] OTHER -> ABSENT]
  /\ modBTermNet = [p \in ModBTerms |-> CASE p = Pin("ModBTerm", "A", "p") -> "a1"
                                          [] p = Pin("ModBTerm", "B", "p") -> "b1"
                                          [] OTHER -> ABSENT]
  /\ \E s1, s2 \in {"SIGNAL", "POWER"}, s3 \in {"SIGNAL", "GROUND"} :
       iTermSigType = [p \in ITerms |-> CASE p.o = "u1" -> s1
                                          [] p.o = "u2" -> s2
                                          [] p.o = "g1" -> s3
                                          [] OTHER -> "SIGNAL"]
  /\ \E sig \in {"SIGNAL", "POWER"}, io \in {"OUTPUT", "INOUT"} :
       /\ bTermType = [p \in BTerms |-> [sig |-> sig, io |-> io]]
       /\ portDirection =
            [pn \in PortNames |-> IF pn = "po" THEN dbToSta_Direction(sig, io)
                                  ELSE IF pn = "Z" THEN "output" ELSE "input"]
  /\ \E s \in {"SIGNAL", "POWER"} :
       netSigType = [n \in DbNets |-> IF n = "n1" THEN s ELSE "SIGNAL"]

NextPins ==
  \/ \E inst \in {TopInstance} \cup Insts \cup ModInsts : InstancePins(inst)
  \/ \E n \in DbNets \cup ModNets : NetPins(n)
  \/ \E n \in DbNets : NetSupply(n)
  \/ \E n \in DbNets \cup ModNets : VisitStart(n)
  \/ VisitEnter
  \/ VisitBelow
  \/ VisitAbove
  \/ VisitReturn

SpecPins == InitPins /\ [][NextPins]_vars

\* ------------------------------------------------------------------------
\* The pin iterators, call by call.  An iterator holds what is left of each
\* range it walks (an iterator pair of a dbSet) and next_; has is the answer
\* of the last hasNext() while no next() has followed it, and yielded the
\* pins next() has returned.

\* DbInstancePinIterator::DbInstancePinIterator: the test of the member
\* mod_inst_, null at that point, leaves the module terminals' range empty.
DbInstancePinIterator(inst) ==
  LET top == inst = TopInstance
      d == staToDb_Instance(inst)
  IN [kind |-> "instance", of |-> inst, top_ |-> top,
      iitr_ |-> IF ~top /\ d.db_inst # NULL THEN dbInst_getITerms(d.db_inst) ELSE <<>>,
      bitr_ |-> IF top THEN dbBlock_getBTerms ELSE <<>>,
      mitr_ |-> <<>>, next_ |-> NullPin, has |-> FALSE, yielded |-> <<>>]

\* DbNetPinIterator::DbNetPinIterator
DbNetPinIterator(net) ==
  LET d == staToDb_Net(net)
  IN [kind |-> "net", of |-> net, top_ |-> FALSE,
      iitr_ |-> IF d.modnet # NULL THEN dbModNet_getITerms(d.modnet)
                ELSE IF d.dnet # NULL THEN dbNet_getITerms(d.dnet)
                ELSE <<>>,
      bitr_ |-> <<>>,
      mitr_ |-> IF d.modnet # NULL THEN dbModNet_getModITerms(d.modnet) ELSE <<>>,
      next_ |-> NullPin, has |-> FALSE, yielded |-> <<>>]

\* The position of the first instance terminal that is no supply, 0 if none.
FirstSignal(terms) ==
  LET ok == {i \in 1..Len(terms) : ~isSupply(iTermSigType[terms[i]])}
  IN IF ok = {} THEN 0 ELSE CHOOSE i \in ok : \A j \in ok : i <= j

\* DbInstancePinIterator::hasNext and DbNetPinIterator::hasNext: the next
\* element is taken out of its range and stored in next_.
hasNext(it) ==
  IF it.top_
    THEN IF it.bitr_ = <<>> THEN [it EXCEPT !.has = FALSE]
         ELSE [it EXCEPT !.next_ = Head(it.bitr_), !.bitr_ = Tail(it.bitr_),
                         !.has = TRUE]
    ELSE LET first == FirstSignal(it.iitr_)
         IN IF first # 0
              THEN [it EXCEPT !.next_ = it.iitr_[first],
                              !.iitr_ = SubSeq(it.iitr_, first + 1, Len(it.iitr_)),
                              !.has = TRUE]
              ELSE IF it.mitr_ # <<>> /\ hierarchy_
                THEN [it EXCEPT !.iitr_ = <<>>, !.next_ = Head(it.mitr_),
                                !.mitr_ = Tail(it.mitr_), !.has = TRUE]
                ELSE [it EXCEPT !.iitr_ = <<>>, !.has = FALSE]

\* DbInstancePinIterator::next and DbNetPinIterator::next
next(it) == [it EXCEPT !.yielded = Append(it.yielded, it.next_), !.has = FALSE]

NewInstancePinIterator(inst) ==
  /\ iter' = DbInstancePinIterator(inst)
  /\ UNCHANGED <<dbVars, drvrVars, visitVars, q, idq, typeVars, newInsts, libVars,
                 instName, netSigType, destroyed>>

NewNetPinIterator(net) ==
  /\ iter' = DbNetPinIterator(net)
  /\ UNCHANGED <<dbVars, drvrVars, visitVars, q, idq, typeVars, newInsts, libVars,
                 instName, netSigType, destroyed>>

IterHasNext ==
  /\ iter.kind # "none"
  /\ iter' = hasNext(iter)
  /\ UNCHANGED <<dbVars, drvrVars, visitVars, q, idq, typeVars, newInsts, libVars,
                 instName, netSigType, destroyed>>

\* next() is called after a hasNext() that answered true.
IterNext ==
  /\ iter.has
  /\ iter' = next(iter)
  /\ UNCHANGED <<dbVars, drvrVars, visitVars, q, idq, typeVars, newInsts, libVars,
                 instName, netSigType, destroyed>>

NextIter ==
  \/ \E inst \in Instances : NewInstancePinIterator(inst)
  \/ \E n \in DbNets \cup ModNets : NewNetPinIterator(n)
  \/ IterHasNext
  \/ IterNext

SpecIter == InitPins /\ [][NextIter]_vars

SupplyPin(p) ==
  \/ p \in ITerms /\ isSupply(iTermSigType[p])
  \/ p \in BTerms /\ isSupply(bTermType[p].sig)

\* C19 (as stated): neither an instance's pin iterator, nor a net's, nor
\* visitConnectedPins produces a pin of power or ground signal type, while
\* isPower and isGround report the net's supply type.
C19_NoSupplyPins ==
  /\ q.op = "pins" => \A i \in 1..Len(q.res) : ~SupplyPin(q.res[i])
  /\ vpurpose = "visit" => \A i \in 1..Len(visitLog) : ~SupplyPin(visitLog[i])
  /\ q.op = "supply" =>
       /\ q.power <=> netSigType[q.of] = "POWER"
       /\ q.ground <=> netSigType[q.of] = "GROUND"

\* ------------------------------------------------------------------------
\* The top library across design loads.
TopLibraries == {i \in 1..Len(library_seq_) : library_seq_[i].name \in Blocks}
VerilogLibraries == {i \in 1..Len(library_seq_) : library_seq_[i].name = "verilog"}

\* C21 (as stated): once a design has been loaded, exactly one library holds
\* a top cell, it is the one built for the design loaded last, and with
\* hierarchy enabled exactly one library of module cells exists.
C21_OneTopLibrary ==
  block_ # NULL =>
    /\ TopLibraries = {top_cell_}
    /\ library_seq_[top_cell_] = TopLibrary(block_)
    /\ hierarchy_ => Cardinality(VerilogLibraries) = 1

\* ------------------------------------------------------------------------
\* C22: deletePin on an instance terminal, mergeInto and mergedInto end in a
\* fatal error, and the call changes neither the database nor the driver
\* index.
C22_UnimplementedIsFatal ==
  /\ []((q.op = "deletePin" /\ q.pin \in ITerms) => q.fatal)
  /\ [](q.op \in {"mergeInto", "mergedInto"} => q.fatal)
  /\ [][((q'.op = "deletePin" /\ q'.pin \in ITerms)
           \/ q'.op \in {"mergeInto", "mergedInto"})
          => UNCHANGED <<dbVars, drvrVars, bTermType, newInsts>>]_vars

\* C22 witness: deletePin was called on the connected instance terminal
\* u1.Z, which is still connected.
C22_Witness ==
  /\ q.op = "deletePin"
  /\ q.pin = Pin("ITerm", "u1", "Z")
  /\ q.fatal
  /\ iTermNet[q.pin] = "n1"

\* The cells the last load built or linked, as <<position of the library,
\* cell name>>: the masters of the libraries a physical load made, the cells
\* a timing load linked to its library.
LastBuilt ==
  {ic \in (1..Len(library_seq_)) \X (Masters \cup {ModInstMaster[i] : i \in ModInsts}) :
     /\ ic[2] \in DOMAIN library_seq_[ic[1]].cells
     /\ CASE q.op = "readLefAfter" -> ic[1] = Len(library_seq_)
          [] q.op = "readDbAfter" -> library_seq_[ic[1]].name \in Range(PhysLibSeq)
          [] q.op = "readLibertyAfter" ->
               library_seq_[ic[1]].cells[ic[2]].libertyCell = q.lib
          [] OTHER -> FALSE}

\* A port's counterpart in a timing cell: a port or a power/ground pin of
\* its name.
HasCounterpart(lib_cell, cell_name, port) ==
  port \in LibertyPortsOf(lib_cell, cell_name) \cup LibertyPgPortsOf(lib_cell, cell_name)

C23_NoWarning ==
  /\ q = LoadResult("readLibertyAfter", "L3")
  /\ warnings = {}
  /\ \E i \in 1..Len(library_seq_) :
       /\ "BUF" \in DOMAIN library_seq_[i].cells
       /\ library_seq_[i].cells["BUF"].ports =
            [port \in MTerms("BUF") |-> IF port = "VDD" THEN NULL ELSE "L3"]

\* C24 (as stated): deleteInstance calls dbModInst::destroy only on the
\* module instance it was given and dbInst::destroy only on the flat instance
\* it was given; on the top instance and on a null handle it calls neither.
C24_DestructorMatchesKind ==
  q.op = "deleteInstance" =>
    /\ q.destructor = "dbModInst::destroy" => (q.inst \in ModInsts /\ q.object = q.inst)
    /\ q.destructor = "dbInst::destroy" => (q.inst \in NewInstNames /\ q.object = q.inst)
    /\ q.inst \in {TopInstance, NULL} => q.destructor = "none"

\* C24: the part that holds, the destructor of a flat or module instance is
\* the one of its kind.
C24_Holds ==
  (q.op = "deleteInstance" /\ q.inst \notin {TopInstance, NULL}) =>
    /\ q.object = q.inst
    /\ q.destructor = IF q.inst \in ModInsts THEN "dbModInst::destroy" ELSE "dbInst::destroy"

\* The flat and module instances directly inside a module.
DirectChildren(module) ==
  {i \in Insts : InstModule[i] = module} \cup {m \in ModInsts : ModInstParent[m] = module}

IterElements ==
  IF iter.kind = "instance" THEN instancePinIterator(iter.of)
  ELSE netPinIterator(iter.of)

\* C26 (as stated): hasNext consumes no element, however often it is called
\* between two calls of next: the pins next() has returned are the first
\* pins of the instance or net, none left out.
C26_HasNextIsPure ==
  iter.kind # "none" =>
    /\ Len(iter.yielded) <= Len(IterElements)
    /\ \A i \in 1..Len(iter.yielded) : iter.yielded[i] = IterElements[i]

\* dbModInst::getModITerms, as a set.
ModInstTerminals(mod_inst) ==
  {p \in ModITerms : p.o = mod_inst /\ modITermNet[p] # ABSENT}

\* C27 (as stated): with hierarchy enabled, the pin iterator of a module
\* instance yields each of its module terminals exactly once.
C27_ModInstPins ==
  (hierarchy_ /\ q.op = "pins" /\ q.of \in ModInsts) =>
    /\ Range(q.res) = ModInstTerminals(q.of)
    /\ \A i, j \in 1..Len(q.res) : q.res[i] = q.res[j] => i = j

\* C28 (as stated): visitConnectedPins hands no null pin to the visitor: a
\* module terminal without a boundary terminal of its name in the child
\* module is skipped, and the traversal goes on.
C28_NoNullPinVisited ==
  /\ \A i \in 1..Len(visitLog) : visitLog[i] # NullPin
  /\ vpc # "crashed"

\* The terminals a step connects or disconnects while no net is deleted.
Rewired ==
  {p \in ITerms : iTermNet'[p] # iTermNet[p]} \cup {p \in BTerms : bTermNet'[p] # bTermNet[p]}

\* C29: a step that connects or disconnects a pin (connectPinAfter,
\* disconnectPinBefore) neither creates nor deletes an entry of the driver
\* index; the only sets that may change are those of the net the pin was on
\* and of the net it is on afterwards, and they change by that pin at most.
C29_IndexEntriesKept ==
  [][(nets' = nets /\ Rewired # {}) =>
       \A n \in DOMAIN net_drvr_pin_map_ :
         /\ DOMAIN net_drvr_pin_map_' = DOMAIN net_drvr_pin_map_
         /\ net_drvr_pin_map_'[n].has = net_drvr_pin_map_[n].has
         /\ \A p \in Rewired :
              /\ net_drvr_pin_map_'[n].drvrs \subseteq net_drvr_pin_map_[n].drvrs \cup {p}
              /\ net_drvr_pin_map_[n].drvrs \ {p} \subseteq net_drvr_pin_map_'[n].drvrs
              /\ n \notin {net_Pin(p), net_Pin(p)'} =>
                   net_drvr_pin_map_'[n] = net_drvr_pin_map_[n]]_vars

\* C29 witness: a driver was connected to a net whose entry it is now in.
C29_Witness ==
  /\ vpc = "idle"
  /\ q.op = "connect"
  /\ q.res # NullPin
  /\ isDriver(q.res)
  /\ net_Pin(q.res) = q.net
  /\ net_drvr_pin_map_[q.net].has
  /\ q.res \in net_drvr_pin_map_[q.net].drvrs
====
